---- MODULE Spec2Model ----
(***************************************************************************)
(* Session-based object-pack upload pipeline of CernVM-FS                  *)
(* (cvmfs/session_context.cc): SessionContextBase, its concrete subclass   *)
(* SessionContext, the upload worker, and the collaborators they use       *)
(* (ObjectPack, FifoChannel, Future).                                      *)
(*                                                                         *)
(* Threads: any producer may call NewBucket / CommitBucket and write to a  *)
(* bucket it holds open; the main thread calls Initialize, WaitForUpload   *)
(* and Finalize; one worker thread runs UploadLoop.  Producers issue their *)
(* calls between Initialize and Finalize: Finalize starts when no producer *)
(* is inside a call, and no producer calls into the session afterwards.    *)
(*                                                                         *)
(* Byte counters are uint64_t in the code; every value here stays far      *)
(* below 2^64, so the counters are modelled as naturals.                   *)
(***************************************************************************)
EXTENDS Integers, Sequences, FiniteSets, TLC

---------------------------------------------------------------------------
\* Bounds of the model

\* Number of buckets (handles) the producers open in one session.
MaxBuckets == 2

\* Capacity of the upload job queue (1000 in the code, scaled down).
JobQueueCapacity == 2

\* How many times one CommitBucket call may re-enter itself before the
\* model stops following it.
MaxDepth == 2

\* Number of producer threads.
NumProducers == 2

\* Pack size ceiling handed to Initialize (max_pack_size).
MaxPackSize == 2

\* Tracer::Activate(buffer_size, flush_threshold, ...): the number of slots
\* of the ring buffer and the number of unflushed records that wakes the
\* flush thread.
BufferSize == 2
FlushThreshold == 1

\* Number of threads that call into the tracer.
NumTracers == 2

\* Number of records the tracing threads hand to the tracer before it is
\* destroyed.
MaxRecords == 3

\* BackoffThrottle::Init(init_delay_ms, max_delay_ms, reset_after_ms): the
\* largest initial delay and the largest cutoff, in milliseconds, and the
\* longest reset window, in seconds.
MaxInitDelay == 2
MaxDelay == 3
MaxWindow == 1

\* Number of threads that call Throttle, number of Throttle calls, and
\* number of seconds that pass between calls.
NumThrottlers == 2
MaxThrottleCalls == 4
MaxTicks == 1

\* Tags of the history: the largest catalog revision a tag points to, and
\* the largest number of tag names handed to CommandRemoveTag.
MaxRevision == 2
MaxCondemned == 2

\* Condition::Wait(msec): the largest number of whole seconds in msec and in
\* the current time, and how many values are taken at each end of the
\* ranges of milliseconds and microseconds.
MaxSeconds == 2
EdgeWidth == 1

\* A bucket may grow one byte past the pack ceiling.
MaxBucketBytes == MaxPackSize + 1

\* The amounts of data a producer writes into a bucket: a single byte, a
\* full pack, one byte more than a full pack.
BucketSizes == {1, MaxPackSize, MaxBucketBytes}

\* upload_results_(1000, 1000): the same capacity as the job queue.
ResultQueueCapacity == JobQueueCapacity

\* Producer threads are numbered from 1; thread 0 is the main thread.
Producers == 1..NumProducers
Main == 0
Threads == Producers \cup {Main}

NULL == 0
NoThread == -1

\* CURLcode returned by curl_easy_perform: CURLE_OK or a transport error.
CURLE_OK == 0
CURLE_COULDNT_CONNECT == 7
CurlCodes == {CURLE_OK, CURLE_COULDNT_CONNECT}

\* Response bodies of the gateway.
OkReply == "{\"status\":\"ok\"}"
Replies == {OkReply, "{\"status\":\"ok\"} ", "{\"status\":\"error\"}"}

---------------------------------------------------------------------------
VARIABLES
  pc,                 \* per thread: position inside the session API
  ctx,                \* per thread: locals of the call in progress
  lock_owner,         \* current_pack_mtx_: the thread holding it, or NoThread
  current_pack_,      \* id of the current pack, or NULL
  active_handles_,    \* vector of open bucket handles
  packs,              \* every ObjectPack allocated so far, by id
  open_buckets,       \* the buckets not yet committed, by handle
  handles_issued,     \* number of buckets created so far
  objects_dispatched_,
  bytes_committed_,
  bytes_dispatched_,
  upload_jobs_,       \* FifoChannel<UploadJob*>
  upload_results_,    \* FifoChannel<Future<bool>*>
  queue_was_flushed_, \* FifoChannel<bool>, number of tokens
  futures,            \* every Future<bool> created so far, by id
  drop_lease_,
  worker_terminate_,
  worker,             \* the upload worker: pc, jobs_processed, job in hand
  fin,                \* locals and outcome of Finalize
  wait,               \* WaitForUpload in progress: handles queued at its call
  log,                \* history: what was dispatched, uploaded, dropped
  component           \* the component followed beside the session

\* A specification follows the session alone, or one component that works
\* without the session.  Each component is known by its own name:
\*   http       one DoUpload call: its inputs, request and response
\*   tracer     the Tracer object, its file and its threads
\*   throttle   the BackoffThrottle object and its callers
\*   history    the tag database of a repository and one command
\*   timedwait  one call of Condition::Wait(msec)
http == component
tracer == component
throttle == component
history == component
timedwait == component

vars == <<pc, ctx, lock_owner, current_pack_, active_handles_, packs,
          open_buckets, handles_issued, objects_dispatched_, bytes_committed_,
          bytes_dispatched_, upload_jobs_, upload_results_,
          queue_was_flushed_, futures, drop_lease_, worker_terminate_,
          worker, fin, wait, log, component>>

sessionVars == <<current_pack_, active_handles_, packs, bytes_committed_>>
bucketVars == <<open_buckets, handles_issued>>
queueVars == <<upload_jobs_, upload_results_, futures>>
workerVars == <<worker, worker_terminate_, queue_was_flushed_>>

---------------------------------------------------------------------------
\* Helpers

\* An erase that empties the vector.
ClearsHandles(s, h) == <<>>

\* std::remove + erase: every occurrence of h leaves the vector.
RemoveHandle(s, h) == SelectSeq(s, LAMBDA x : x # h)

SeqToSet(s) == {s[i] : i \in 1..Len(s)}

StrictlyIncreasing(s) == \A i \in 1..Len(s) : \A j \in 1..Len(s) : i < j => s[i] < s[j]

Occurrences(s, x) == Cardinality({i \in 1..Len(s) : s[i] = x})

BoolStr(b) == IF b THEN "true" ELSE "false"

NoCtx == [cont |-> "none", handle |-> NULL, new_pack |-> NULL, depth |-> 0,
          ticket |-> 0, result |-> NULL, ret |-> "none"]

\* A CommitBucket that answers false whatever it found.
ReturnsFalse(ret) == [NoCtx EXCEPT !.ret = "false"]

\* CommitBucket returns: the thread is outside any call and holds the value
\* returned (return false, line 153; return true, line 181).
Returned(ret) == [NoCtx EXCEPT !.ret = BoolStr(ret)]

---------------------------------------------------------------------------
\* ObjectPack

EmptyPack == [open |-> {}, buckets |-> <<>>, size |-> 0, state |-> "live"]

\* A pack the worker deleted.
FreedPack == [open |-> {}, buckets |-> <<>>, size |-> 0, state |-> "freed"]

\* A size() that reports the number of committed buckets instead of their
\* bytes.
SizeCountsObjects(p) == Len(p.buckets)

\* ObjectPack::size(): the total size of the committed buckets.
PackSize(p) == p.size

\* ObjectPack::GetNoObjects(): the number of committed buckets.
GetNoObjects(pk) == Len(packs[pk].buckets)

\* The size read through the handle of an open bucket: the bytes written
\* so far, or anything when the bucket was freed with its pack (a read of
\* freed memory).
ReadSize(h) == IF open_buckets[h].freed THEN 0..MaxBucketBytes
               ELSE {open_buckets[h].bytes}

\* An ObjectPack that takes every bucket, whatever its size.
TakesEveryBucket(pk, sz) == TRUE

\* ObjectPack::CommitBucket refuses a bucket that would push the committed
\* size over the ceiling.
PackCommitFits(pk, sz) == PackSize(packs[pk]) + sz <= MaxPackSize

\* ObjectPack::CommitBucket, the bucket fits: the bucket is closed and counted.
PackCommitBucket(p, h, sz) ==
  [p EXCEPT !.open = @ \ {h},
            !.buckets = Append(@, h),
            !.size = @ + sz]

\* ObjectPack::TransferBucket of every handle in hs: out of one pack, into
\* another.
PackTransferOut(p, hs) == [p EXCEPT !.open = @ \ hs]
PackTransferIn(p, hs) == [p EXCEPT !.open = @ \cup hs]

\* delete pack: the open buckets the pack still holds are freed with it.
FreeBuckets(pk) ==
  [h \in DOMAIN open_buckets |->
     IF h \in packs[pk].open THEN [bytes |-> 0, freed |-> TRUE]
     ELSE open_buckets[h]]

---------------------------------------------------------------------------
\* FifoChannel

\* Enqueue waits while the queue holds maximal_queue_length entries.
QueueHasSpace(q, cap) == Len(q) < cap

---------------------------------------------------------------------------
InitSession ==
  /\ pc = [t \in Threads |-> IF t = Main THEN "constructed" ELSE "idle"]
  /\ ctx = [t \in Threads |-> NoCtx]
  /\ lock_owner = NoThread
  /\ current_pack_ = NULL
  /\ active_handles_ = <<>>
  /\ packs = <<>>
  /\ open_buckets = <<>>
  /\ handles_issued = 0
  /\ objects_dispatched_ = 0
  /\ bytes_committed_ = 0
  /\ bytes_dispatched_ = 0
  /\ upload_jobs_ = <<>>
  /\ upload_results_ = <<>>
  /\ queue_was_flushed_ = 0
  /\ futures = <<>>
  /\ drop_lease_ = TRUE
  /\ worker_terminate_ = 0
  /\ worker = [pc |-> "not_started", jobs_processed |-> 0, job |-> NULL,
               ok |-> "none", threads |-> 0]
  /\ fin = [results |-> TRUE, jobs_finished |-> 0, future |-> NULL,
            drained |-> <<>>, derived |-> "none", ret |-> "none"]
  /\ wait = 0
  /\ log = [enqueued |-> <<>>, uploads |-> <<>>, objects |-> <<>>,
            dispatched_bytes |-> 0, upload_failed |-> FALSE,
            drop_lease |-> <<>>, initialize |-> "none"]

\* Threads that trace are numbered from 1; the first one also spawns the
\* flush thread and destroys the tracer.
Tracers == 1..NumTracers
FlushThread == 0

\* A thread outside any call of the tracer.
NoCall == [pc |-> "idle", op |-> "none", my_seq_no |-> 0]

\* Tracer::Tracer(): not active, no buffers, no flush thread.  mutex is the
\* thread that holds the mutex of sig_flush_; file is what was appended to
\* the trace file, each record shown by its sequence number.
NoTracer ==
  [active |-> FALSE, spawned |-> FALSE, buffer_size_ |-> 0,
   flush_threshold_ |-> 0, ring_buffer_ |-> <<>>, commit_buffer_ |-> <<>>,
   seq_no_ |-> 0, flushed_ |-> 0, terminate_flush_thread_ |-> 0,
   flush_immediately_ |-> 0, mutex |-> NoThread, file |-> <<>>,
   callers |-> [t \in Tracers |-> NoCall],
   flush |-> [pc |-> "not_started", base |-> 0, i |-> 0, pos |-> 0]]

\* No component is followed beside the session.
NoComponent == [stage |-> "none"]

\* No request is followed through the transport.
NoRequest ==
  [stage |-> "none", session_token |-> "", secret |-> "", key_id |-> "",
   pack |-> "", api_version |-> 0, headers |-> <<>>, payload_text |-> "",
   body |-> "", response |-> <<>>, reply |-> "", ret |-> CURLE_OK,
   result |-> "none"]

Init == InitSession /\ component = NoComponent

---------------------------------------------------------------------------
\* SessionContextBase::Initialize and SessionContext::InitializeDerived

\* An Initialize that does not look for an open pack.
IgnoresOpenPack(derived, pack) == derived

\* if (current_pack_) ret = false; ret = InitializeDerived() && ret.
\* derived is what InitializeDerived returned, pack the current-pack slot.
InitializeResult(derived, pack) == derived /\ (pack = NULL)

\* pthread_create in InitializeDerived succeeded: one more thread runs
\* UploadLoop.  The worker of the session is followed through its steps; the
\* threads are not followed once two of them run on one session.
StartWorker ==
  IF worker.pc \in {"not_started", "exited"}
  THEN [pc |-> "outer", jobs_processed |-> 0, job |-> NULL, ok |-> "none",
        threads |-> worker.threads + 1]
  ELSE [worker EXCEPT !.pc = "unfollowed", !.threads = @ + 1]

\* One call of Initialize with no thread inside another call of the session:
\* the first call, a call repeated while the session is open, or a call after
\* Finalize returned.  mutex_ok: the lock was initialised; create_ok:
\* pthread_create succeeded.  log.initialize is the value returned.  The
\* session is followed after its first successful Initialize; a later call is
\* followed up to its return.
InitializeCall(drop_lease, mutex_ok, create_ok) ==
  LET ret == mutex_ok /\ InitializeResult(create_ok, current_pack_)
      after == IF pc[Main] # "constructed" THEN "returned"
               ELSE IF ret THEN "idle" ELSE "constructed"
  IN /\ pc[Main] \in {"constructed", "idle", "done"}
     /\ \A p \in Producers : pc[p] = "idle"
     /\ pc' = [pc EXCEPT ![Main] = after]
     /\ log' = [log EXCEPT !.initialize = BoolStr(ret)]
     /\ IF ~mutex_ok
        THEN \* Could not initialize SessionContext lock: return false
             UNCHANGED <<drop_lease_, objects_dispatched_, bytes_committed_,
                         bytes_dispatched_, upload_results_, queue_was_flushed_,
                         worker_terminate_, upload_jobs_, worker>>
        ELSE /\ drop_lease_' = drop_lease
             /\ objects_dispatched_' = 0
             /\ bytes_committed_' = 0
             /\ bytes_dispatched_' = 0
             /\ upload_results_' = <<>>
             /\ queue_was_flushed_' = 1
             /\ worker_terminate_' = 0
             /\ upload_jobs_' = <<>>
             /\ worker' = IF create_ok THEN StartWorker ELSE worker
     /\ UNCHANGED component
     /\ UNCHANGED <<ctx, lock_owner, current_pack_, active_handles_, packs,
                    bucketVars, futures, fin, wait>>

\* The first call of Initialize of a session, with the lock initialised and
\* the worker thread created.
Initialize(drop_lease) ==
  /\ pc[Main] = "constructed"
  /\ InitializeCall(drop_lease, TRUE, TRUE)

---------------------------------------------------------------------------
\* The pack lock (a recursive mutex): free, or already held by the caller.

\* A session that never waits for the pack lock.
LockNotTaken(t) == TRUE

LockAvailable(t) == lock_owner \in {NoThread, t}

\* Producers call into the session between Initialize and Finalize.
SessionOpen == pc[Main] \in {"idle", "WaitForUpload"}

\* Producer threads are interchangeable: a call is issued by the first
\* producer that is not inside a call.
IssuesCall(t) ==
  /\ t \in Producers
  /\ SessionOpen
  /\ pc[t] = "idle"
  /\ \A u \in Producers : u < t => pc[u] # "idle"

---------------------------------------------------------------------------
\* SessionContextBase::NewBucket

\* NewBucket while fewer than limit buckets were created in the session.
OpenBucket(t, limit) ==
  /\ IssuesCall(t)
  /\ LockAvailable(t)
  /\ handles_issued < limit
  /\ LET hd == handles_issued + 1
         fresh == current_pack_ = NULL
         pk == IF fresh THEN Len(packs) + 1 ELSE current_pack_
         base == IF fresh THEN Append(packs, EmptyPack) ELSE packs
     IN /\ current_pack_' = pk
        /\ packs' = [base EXCEPT ![pk] = PackTransferIn(@, {hd})]
        /\ handles_issued' = hd
        /\ open_buckets' = open_buckets @@ (hd :> [bytes |-> 0, freed |-> FALSE])
        /\ active_handles_' = Append(active_handles_, hd)
  /\ UNCHANGED component
  /\ UNCHANGED <<pc, ctx, lock_owner, objects_dispatched_, bytes_committed_,
                 bytes_dispatched_, queueVars, workerVars, drop_lease_, fin,
                 wait, log>>

NewBucket(t) == OpenBucket(t, MaxBuckets)

\* ObjectPack::AddToBucket: a producer writes the content of a bucket it
\* holds open.
WriteBucket(h, n) ==
  /\ SessionOpen
  /\ h \in DOMAIN open_buckets
  /\ ~open_buckets[h].freed
  /\ open_buckets[h].bytes = 0
  /\ open_buckets' = [open_buckets EXCEPT ![h].bytes = n]
  /\ UNCHANGED component
  /\ UNCHANGED <<pc, ctx, lock_owner, sessionVars, handles_issued,
                 objects_dispatched_, bytes_dispatched_, queueVars,
                 workerVars, drop_lease_, fin, wait, log>>

---------------------------------------------------------------------------
\* SessionContextBase::CommitBucket, from taking the lock to its return or
\* to its call of Dispatch.  cur is the current pack the call finds, d the
\* nesting depth of the call.

\* An accounting that adds the size of the whole pack at every commit.
AddsPackSize(committed, size0, size1) == committed + size1

\* bytes_committed_ += size1 - size0, in uint64_t.
BytesCommitted(committed, size0, size1) == committed + (size1 - size0)

CommitBucketBody(t, cur, h, force_dispatch, d) ==
  IF cur = NULL
  THEN \* called without an open ObjectPack: return false
       /\ pc' = [pc EXCEPT ![t] = "idle"]
       /\ ctx' = [ctx EXCEPT ![t] = Returned(FALSE)]
       /\ lock_owner' = NoThread
       /\ UNCHANGED <<active_handles_, packs, bytes_committed_, open_buckets>>
  ELSE \E sz \in ReadSize(h) :
       LET size0 == PackSize(packs[cur]) IN
       IF PackCommitFits(cur, sz)
       THEN \* the current pack is still not full
            LET committed == PackCommitBucket(packs[cur], h, sz)
                size1 == PackSize(committed)
            IN /\ packs' = [packs EXCEPT ![cur] = committed]
               /\ open_buckets' = [x \in DOMAIN open_buckets \ {h} |-> open_buckets[x]]
               /\ active_handles_' = RemoveHandle(active_handles_, h)
               /\ bytes_committed_' = BytesCommitted(bytes_committed_, size0, size1)
               /\ IF force_dispatch
                  THEN /\ pc' = [pc EXCEPT ![t] = "Dispatch"]
                       /\ ctx' = [ctx EXCEPT ![t] =
                                    [NoCtx EXCEPT !.cont = "force", !.handle = h,
                                                  !.depth = d]]
                       /\ lock_owner' = t
                  ELSE /\ pc' = [pc EXCEPT ![t] = "idle"]
                       /\ ctx' = [ctx EXCEPT ![t] = Returned(TRUE)]
                       /\ lock_owner' = NoThread
       ELSE \* the current pack is full and can be dispatched
            LET new_pack == Len(packs) + 1
                moved == SeqToSet(active_handles_)
            IN /\ packs' = Append(
                             [packs EXCEPT ![cur] = PackTransferOut(@, moved)],
                             PackTransferIn(EmptyPack, moved))
               /\ pc' = [pc EXCEPT ![t] = "Dispatch"]
               /\ ctx' = [ctx EXCEPT ![t] =
                            [NoCtx EXCEPT !.cont = "rotate", !.handle = h,
                                          !.new_pack = new_pack, !.depth = d]]
               /\ lock_owner' = t
               /\ UNCHANGED <<active_handles_, bytes_committed_, open_buckets>>

CommitBucket(t, h, force_dispatch) ==
  /\ IssuesCall(t)
  /\ LockAvailable(t)
  /\ h \in SeqToSet(active_handles_)
  /\ CommitBucketBody(t, current_pack_, h, force_dispatch, 0)
  /\ UNCHANGED component
  /\ UNCHANGED <<current_pack_, handles_issued, objects_dispatched_,
                 bytes_dispatched_, queueVars, workerVars, drop_lease_, fin,
                 wait, log>>

---------------------------------------------------------------------------
\* SessionContextBase::Dispatch, entered with the lock held and a current
\* pack: the counters, then SessionContext::DispatchObjectPack, then the
\* enqueue of the completion handle.

\* A Dispatch that does not count the bytes of the pack.
ForgetsBytes(dispatched, size) == dispatched

\* bytes_dispatched_ += current_pack_->size()
BytesDispatched(dispatched, size) == dispatched + size

Dispatch(t) ==
  /\ pc[t] = "Dispatch"
  /\ LockAvailable(t)
  /\ current_pack_ # NULL
  /\ objects_dispatched_' = objects_dispatched_ + 1
  /\ bytes_dispatched_' =
       BytesDispatched(bytes_dispatched_, PackSize(packs[current_pack_]))
  /\ pc' = [pc EXCEPT ![t] = "DispatchObjectPack"]
  /\ ctx' = [ctx EXCEPT ![t].ticket = objects_dispatched_ + 1]
  /\ log' = [log EXCEPT !.objects = @ \o packs[current_pack_].buckets,
                        !.dispatched_bytes = @ + packs[current_pack_].size]
  /\ UNCHANGED component
  /\ UNCHANGED <<lock_owner, sessionVars, bucketVars, queueVars,
                 workerVars, drop_lease_, fin, wait>>

\* SessionContext::DispatchObjectPack past the wait for space: a new job and
\* a new Future; the job joins the job queue.
EnqueueJob(t) ==
  /\ pc[t] = "DispatchObjectPack"
  /\ LET result == Len(futures) + 1
     IN /\ futures' = Append(futures, [value |-> "unset", ticket |-> ctx[t].ticket])
        /\ upload_jobs_' = Append(upload_jobs_,
                                  [pack |-> current_pack_, result |-> result,
                                   ticket |-> ctx[t].ticket])
        /\ ctx' = [ctx EXCEPT ![t].result = result]
  /\ packs' = [packs EXCEPT ![current_pack_].state = "queued"]
  /\ pc' = [pc EXCEPT ![t] = "EnqueueResult"]
  /\ log' = [log EXCEPT !.enqueued = Append(@, ctx[t].ticket)]
  /\ UNCHANGED component
  /\ UNCHANGED <<lock_owner, current_pack_, active_handles_, bucketVars,
                 objects_dispatched_, bytes_committed_, bytes_dispatched_,
                 upload_results_, workerVars, drop_lease_, fin, wait>>

\* A DispatchObjectPack whose enqueue never waits for space.
DispatchWithoutWaiting(t) == EnqueueJob(t)

\* SessionContext::DispatchObjectPack: upload_jobs_.Enqueue(job) waits for
\* space in the job queue.
DispatchObjectPack(t) ==
  /\ QueueHasSpace(upload_jobs_, JobQueueCapacity)
  /\ EnqueueJob(t)

\* upload_results_.Enqueue(...) waits for space in the results queue.
EnqueueResult(t) ==
  /\ pc[t] = "EnqueueResult"
  /\ QueueHasSpace(upload_results_, ResultQueueCapacity)
  /\ upload_results_' = Append(upload_results_, ctx[t].result)
  /\ pc' = [pc EXCEPT ![t] = "DispatchReturn"]
  /\ UNCHANGED component
  /\ UNCHANGED <<ctx, lock_owner, sessionVars, bucketVars,
                 objects_dispatched_, bytes_dispatched_, upload_jobs_, futures,
                 workerVars, drop_lease_, fin, wait, log>>

\* A forced commit that returns with the dispatched pack still installed.
ForceReturnKeepsPack(t) ==
  /\ pc[t] = "DispatchReturn"
  /\ ctx[t].cont = "force"
  /\ pc' = [pc EXCEPT ![t] = "idle"]
  /\ ctx' = [ctx EXCEPT ![t] = Returned(TRUE)]
  /\ lock_owner' = NoThread
  /\ UNCHANGED component
  /\ UNCHANGED <<current_pack_, active_handles_, packs, bytes_committed_,
                 bucketVars, objects_dispatched_, bytes_dispatched_, queueVars,
                 workerVars, drop_lease_, fin, wait, log>>

\* CommitBucket after a forced Dispatch: current_pack_ = NULL; return true.
CommitForceReturn(t) ==
  /\ pc[t] = "DispatchReturn"
  /\ ctx[t].cont = "force"
  /\ current_pack_' = NULL
  /\ pc' = [pc EXCEPT ![t] = "idle"]
  /\ ctx' = [ctx EXCEPT ![t] = Returned(TRUE)]
  /\ lock_owner' = NoThread
  /\ UNCHANGED component
  /\ UNCHANGED <<active_handles_, packs, bytes_committed_, bucketVars,
                 objects_dispatched_, bytes_dispatched_, queueVars,
                 workerVars, drop_lease_, fin, wait, log>>

\* CommitBucket after the Dispatch of a full pack: the new pack becomes the
\* current one and the commit is issued again, without forced dispatch.
CommitRotateRetry(t) ==
  /\ pc[t] = "DispatchReturn"
  /\ ctx[t].cont = "rotate"
  /\ ctx[t].depth < MaxDepth
  /\ current_pack_' = ctx[t].new_pack
  /\ CommitBucketBody(t, ctx[t].new_pack, ctx[t].handle, FALSE, ctx[t].depth + 1)
  /\ UNCHANGED component
  /\ UNCHANGED <<handles_issued, objects_dispatched_, bytes_dispatched_,
                 queueVars, workerVars, drop_lease_, fin, wait, log>>

---------------------------------------------------------------------------
\* SessionContext::DoUpload: the POST succeeded when the transport call did
\* not fail and the response body is exactly the success literal.

DoUpload(ret, reply) == (reply = OkReply) /\ (ret = CURLE_OK)

\* The value UploadLoop hands to job->result->Set(...) after DoUpload
\* returned ok.
ResultValue(ok) == TRUE

---------------------------------------------------------------------------
\* SessionContext::UploadLoop, the worker thread

\* A worker that stops without waiting for the terminate flag.
StopsUnasked == TRUE

\* SessionContext::ShouldTerminate: atomic_read32(&worker_terminate_).
ShouldTerminate == worker_terminate_ # 0

\* while (!ctx->ShouldTerminate()), on entering the loop
WorkerOuter ==
  /\ worker.pc = "outer"
  /\ worker' = [worker EXCEPT !.pc = IF ShouldTerminate THEN "exited" ELSE "inner"]
  /\ UNCHANGED component
  /\ UNCHANGED <<pc, ctx, lock_owner, sessionVars, bucketVars,
                 objects_dispatched_, bytes_dispatched_, queueVars,
                 queue_was_flushed_, drop_lease_, worker_terminate_, fin, wait,
                 log>>

\* A worker that leaves a job whose upload failed in the queue, to try it
\* again.
RetriesFailedUpload(ret, reply) ==
  LET job == Head(upload_jobs_)
      ok == DoUpload(ret, reply)
  IN /\ worker' = IF ok
                  THEN [worker EXCEPT !.pc = "set", !.job = job, !.ok = "true"]
                  ELSE worker
     /\ upload_jobs_' = IF ok THEN Tail(upload_jobs_) ELSE upload_jobs_
     /\ log' = [log EXCEPT !.uploads = Append(@, job.ticket),
                           !.upload_failed = @ \/ ~ok]

\* UploadJob* job = ctx->upload_jobs_.Dequeue(); ctx->DoUpload(job): the head
\* of the job queue is taken and uploaded; ret and reply are what curl
\* reports for the request.
TakeJob(ret, reply) ==
  LET job == Head(upload_jobs_)
      ok == DoUpload(ret, reply)
  IN /\ worker' = [worker EXCEPT !.pc = "set", !.job = job, !.ok = BoolStr(ok)]
     /\ upload_jobs_' = Tail(upload_jobs_)
     /\ log' = [log EXCEPT !.uploads = Append(@, job.ticket),
                           !.upload_failed = @ \/ ~ok]

\* while (jobs_processed < ctx->NumJobsSubmitted()): with a job to process,
\* Dequeue takes it, or waits when the job queue is still empty.
WorkerInner(ret, reply) ==
  /\ worker.pc = "inner"
  /\ IF worker.jobs_processed < objects_dispatched_
     THEN IF upload_jobs_ # <<>>
          THEN TakeJob(ret, reply)
          ELSE /\ worker' = [worker EXCEPT !.pc = "dequeue"]
               /\ UNCHANGED <<upload_jobs_, log>>
     ELSE /\ worker' = [worker EXCEPT !.pc = "flush"]
          /\ UNCHANGED <<upload_jobs_, log>>
  /\ UNCHANGED component
  /\ UNCHANGED <<pc, ctx, lock_owner, sessionVars, bucketVars,
                 objects_dispatched_, bytes_dispatched_, upload_results_,
                 futures, queue_was_flushed_, drop_lease_, worker_terminate_,
                 fin, wait>>

\* upload_jobs_.Dequeue() returns once a job was enqueued.
WorkerDequeue(ret, reply) ==
  /\ worker.pc = "dequeue"
  /\ upload_jobs_ # <<>>
  /\ TakeJob(ret, reply)
  /\ UNCHANGED component
  /\ UNCHANGED <<pc, ctx, lock_owner, sessionVars, bucketVars,
                 objects_dispatched_, bytes_dispatched_, upload_results_,
                 futures, queue_was_flushed_, drop_lease_, worker_terminate_,
                 fin, wait>>

\* job->result->Set(v); delete job->pack; delete job; jobs_processed++.
SetResult(v) ==
  /\ worker.pc = "set"
  /\ LET job == worker.job
     IN /\ futures' = [futures EXCEPT ![job.result].value = BoolStr(v)]
        /\ open_buckets' = FreeBuckets(job.pack)
        /\ packs' = [packs EXCEPT ![job.pack] = FreedPack]
  /\ worker' = [worker EXCEPT !.pc = "inner", !.job = NULL, !.ok = "none",
                              !.jobs_processed = @ + 1]
  /\ UNCHANGED component
  /\ UNCHANGED <<pc, ctx, lock_owner, current_pack_, active_handles_,
                 bytes_committed_, handles_issued, objects_dispatched_,
                 bytes_dispatched_, upload_jobs_, upload_results_,
                 queue_was_flushed_, drop_lease_, worker_terminate_, fin, wait,
                 log>>

\* UploadLoop: ctx->DoUpload(job); job->result->Set(true);
WorkerSet == SetResult(ResultValue(worker.ok = "true"))

\* if (ctx->queue_was_flushed_.IsEmpty()) ctx->queue_was_flushed_.Enqueue(true),
\* and the loop condition !ctx->ShouldTerminate() that follows it.
WorkerFlush ==
  /\ worker.pc = "flush"
  /\ queue_was_flushed_' = IF queue_was_flushed_ = 0 THEN 1 ELSE queue_was_flushed_
  /\ worker' = [worker EXCEPT !.pc = IF ShouldTerminate THEN "exited" ELSE "inner"]
  /\ UNCHANGED component
  /\ UNCHANGED <<pc, ctx, lock_owner, sessionVars, bucketVars,
                 objects_dispatched_, bytes_dispatched_, queueVars,
                 drop_lease_, worker_terminate_, fin, wait, log>>

---------------------------------------------------------------------------
\* SessionContextBase::WaitForUpload

\* The call: return at once when the results queue is empty; else
\* queue_was_flushed_.Dequeue() takes the token, or waits for one.
WaitForUpload ==
  /\ pc[Main] = "idle"
  /\ IF upload_results_ = <<>>
     THEN UNCHANGED <<pc, wait, queue_was_flushed_>>
     ELSE IF queue_was_flushed_ > 0
          THEN /\ queue_was_flushed_' = queue_was_flushed_ - 1
               /\ UNCHANGED <<pc, wait>>
          ELSE /\ pc' = [pc EXCEPT ![Main] = "WaitForUpload"]
               /\ wait' = Len(upload_results_)
               /\ UNCHANGED queue_was_flushed_
  /\ UNCHANGED component
  /\ UNCHANGED <<ctx, lock_owner, sessionVars, bucketVars,
                 objects_dispatched_, bytes_dispatched_, queueVars, worker,
                 worker_terminate_, drop_lease_, fin, log>>

\* queue_was_flushed_.Dequeue() returns with a token.
WaitForUploadReturn ==
  /\ pc[Main] = "WaitForUpload"
  /\ queue_was_flushed_ > 0
  /\ queue_was_flushed_' = queue_was_flushed_ - 1
  /\ pc' = [pc EXCEPT ![Main] = "idle"]
  /\ wait' = 0
  /\ UNCHANGED component
  /\ UNCHANGED <<ctx, lock_owner, sessionVars, bucketVars,
                 objects_dispatched_, bytes_dispatched_, queueVars, worker,
                 worker_terminate_, drop_lease_, fin, log>>

---------------------------------------------------------------------------
\* SessionContextBase::Finalize

\* A Finalize that forgets the drained results.
ResultIgnoresDrained(derived, committed, dispatched, results) ==
  derived /\ (committed = dispatched)

\* The aggregate result of Finalize.
FinalizeResult(derived, committed, dispatched, results) ==
  derived /\ (committed = dispatched) /\ results

\* results = future->Get() && results
DrainResult(got, results) == got /\ results

\* A Finalize that leaves the current pack where it is.
DispatchesNothing == FALSE

\* Finalize dispatches the current pack when it holds an object.
FinalizeMustDispatch == current_pack_ # NULL /\ GetNoObjects(current_pack_) > 0

\* A Finalize that checks nothing about the active set.
AssertsNothing == TRUE

\* assert(active_handles_.empty())
ActiveHandlesEmpty == active_handles_ = <<>>

\* assert(active_handles_.empty()), then the locked block up to Dispatch.
FinalizeBegin ==
  /\ pc[Main] = "idle"
  /\ \A p \in Producers : pc[p] = "idle"
  /\ IF ~ActiveHandlesEmpty
     THEN /\ pc' = [pc EXCEPT ![Main] = "aborted"]
          /\ UNCHANGED <<ctx, lock_owner>>
     ELSE IF FinalizeMustDispatch
          THEN /\ pc' = [pc EXCEPT ![Main] = "Dispatch"]
               /\ ctx' = [ctx EXCEPT ![Main] = [NoCtx EXCEPT !.cont = "finalize"]]
               /\ lock_owner' = Main
          ELSE /\ pc' = [pc EXCEPT ![Main] = "drain"]
               /\ UNCHANGED <<ctx, lock_owner>>
  /\ UNCHANGED component
  /\ UNCHANGED <<sessionVars, bucketVars, objects_dispatched_,
                 bytes_dispatched_, queueVars, workerVars, drop_lease_, fin,
                 wait, log>>

\* After Dispatch: current_pack_ = NULL, and the lock is released.
FinalizeDispatchReturn ==
  /\ pc[Main] = "DispatchReturn"
  /\ ctx[Main].cont = "finalize"
  /\ current_pack_' = NULL
  /\ lock_owner' = NoThread
  /\ pc' = [pc EXCEPT ![Main] = "drain"]
  /\ ctx' = [ctx EXCEPT ![Main] = NoCtx]
  /\ UNCHANGED component
  /\ UNCHANGED <<active_handles_, packs, bytes_committed_, bucketVars,
                 objects_dispatched_, bytes_dispatched_, queueVars, workerVars,
                 drop_lease_, fin, wait, log>>

\* A drain loop that stops one handle short of the dispatched jobs.
StopsOneShort == fin.jobs_finished + 1 < objects_dispatched_

\* The condition of the drain loop of Finalize:
\* !upload_results_.IsEmpty() || (jobs_finished < NumJobsSubmitted()).
ResultsOutstanding ==
  upload_results_ # <<>> \/ fin.jobs_finished < objects_dispatched_

\* while (!upload_results_.IsEmpty() || (jobs_finished < NumJobsSubmitted())):
\* upload_results_.Dequeue() takes the head of the results queue, waiting
\* for one when the queue is empty; the loop ends with nothing outstanding.
FinalizeDrainCheck ==
  /\ pc[Main] = "drain"
  /\ IF ResultsOutstanding
     THEN /\ upload_results_ # <<>>
          /\ fin' = [fin EXCEPT !.future = Head(upload_results_)]
          /\ upload_results_' = Tail(upload_results_)
          /\ pc' = [pc EXCEPT ![Main] = "drain_get"]
     ELSE /\ pc' = [pc EXCEPT ![Main] = "drop_lease"]
          /\ UNCHANGED <<fin, upload_results_>>
  /\ UNCHANGED component
  /\ UNCHANGED <<ctx, lock_owner, sessionVars, bucketVars,
                 objects_dispatched_, bytes_dispatched_, upload_jobs_, futures,
                 workerVars, drop_lease_, wait, log>>

\* future->Get() waits until the handle is set;
\* results = future->Get() && results; delete future; jobs_finished++.
FinalizeGet ==
  /\ pc[Main] = "drain_get"
  /\ futures[fin.future].value # "unset"
  /\ fin' = [fin EXCEPT !.results = DrainResult(futures[fin.future].value = "true", @),
                        !.jobs_finished = @ + 1,
                        !.drained = Append(@, [ticket |-> futures[fin.future].ticket,
                                               value |-> futures[fin.future].value]),
                        !.future = NULL]
  /\ pc' = [pc EXCEPT ![Main] = "drain"]
  /\ UNCHANGED component
  /\ UNCHANGED <<ctx, lock_owner, sessionVars, bucketVars,
                 objects_dispatched_, bytes_dispatched_, queueVars, workerVars,
                 drop_lease_, wait, log>>

\* A Finalize that drops the lease whatever the configuration.
AlwaysDropLease == TRUE

\* if (drop_lease_ && !DropLease()) ...
MustDropLease == drop_lease_

\* The lease is dropped when drop_lease_ is set; then
\* SessionContext::FinalizeDerived: atomic_write32(&worker_terminate_, 1).
FinalizeDropLease ==
  /\ pc[Main] = "drop_lease"
  /\ log' = IF MustDropLease
            THEN [log EXCEPT !.drop_lease =
                    Append(@, [drained |-> fin.jobs_finished,
                               outstanding |-> Len(upload_results_)])]
            ELSE log
  /\ worker_terminate_' = 1
  /\ pc' = [pc EXCEPT ![Main] = "join"]
  /\ UNCHANGED component
  /\ UNCHANGED <<ctx, lock_owner, sessionVars, bucketVars,
                 objects_dispatched_, bytes_dispatched_, queueVars, worker,
                 queue_was_flushed_, drop_lease_, fin, wait>>

\* results = FinalizeDerived() && (bytes_committed_ == bytes_dispatched_) &&
\* results; return results.  derived is what FinalizeDerived returned.
FinalizeReturn(derived) ==
  /\ pc[Main] = "join"
  /\ worker.pc = "exited"
  /\ fin' = [fin EXCEPT !.derived = BoolStr(derived),
                        !.ret = BoolStr(FinalizeResult(derived, bytes_committed_,
                                                       bytes_dispatched_,
                                                       fin.results))]
  /\ pc' = [pc EXCEPT ![Main] = "done"]
  /\ UNCHANGED component
  /\ UNCHANGED <<ctx, lock_owner, sessionVars, bucketVars,
                 objects_dispatched_, bytes_dispatched_, queueVars, workerVars,
                 drop_lease_, wait, log>>

\* SessionContext::FinalizeDerived: pthread_join returns once the worker left
\* UploadLoop; return true.
FinalizeJoin == FinalizeReturn(TRUE)

---------------------------------------------------------------------------
\* What curl reports for a request, return code and body received: success,
\* a body that is not the literal, a failed transport with a matching body.
Transfers ==
  {<<CURLE_OK, OkReply>>,
   <<CURLE_OK, "{\"status\":\"ok\"} ">>,
   <<CURLE_COULDNT_CONNECT, OkReply>>}

Next ==
  \/ \E dl \in BOOLEAN : Initialize(dl)
  \/ \E t \in Producers : NewBucket(t)
  \/ \E h \in 1..MaxBuckets : \E n \in BucketSizes : WriteBucket(h, n)
  \/ \E t \in Producers : \E h \in 1..MaxBuckets : \E f \in BOOLEAN :
       CommitBucket(t, h, f)
  \/ \E t \in Threads : Dispatch(t)
  \/ \E t \in Threads : DispatchObjectPack(t)
  \/ \E t \in Threads : EnqueueResult(t)
  \/ \E t \in Producers : CommitForceReturn(t)
  \/ \E t \in Producers : CommitRotateRetry(t)
  \/ WorkerOuter
  \/ \E x \in Transfers : WorkerInner(x[1], x[2])
  \/ \E x \in Transfers : WorkerDequeue(x[1], x[2])
  \/ WorkerSet
  \/ WorkerFlush
  \/ WaitForUpload
  \/ WaitForUploadReturn
  \/ FinalizeBegin
  \/ FinalizeDispatchReturn
  \/ FinalizeDrainCheck
  \/ FinalizeGet
  \/ FinalizeDropLease
  \/ FinalizeJoin

Spec == Init /\ [][Next]_vars

\* Scheduling: a thread that is inside a call and can take its next step
\* takes it; the worker thread runs whenever it can.  Nothing obliges the
\* callers to issue a call.
ThreadsRun ==
  /\ \A t \in Threads :
       /\ WF_vars(Dispatch(t))
       /\ WF_vars(DispatchObjectPack(t))
       /\ WF_vars(EnqueueResult(t))
  /\ \A t \in Producers :
       /\ WF_vars(CommitForceReturn(t))
       /\ WF_vars(CommitRotateRetry(t))
  /\ WF_vars(WaitForUploadReturn)
  /\ WF_vars(FinalizeDispatchReturn)
  /\ WF_vars(FinalizeDrainCheck)
  /\ WF_vars(FinalizeGet)
  /\ WF_vars(FinalizeDropLease)
  /\ WF_vars(FinalizeJoin)

WorkerRuns ==
  /\ WF_vars(WorkerOuter)
  /\ WF_vars(\E x \in Transfers : WorkerInner(x[1], x[2]))
  /\ WF_vars(\E x \in Transfers : WorkerDequeue(x[1], x[2]))
  /\ WF_vars(WorkerSet)
  /\ WF_vars(WorkerFlush)

SpecLive == Spec /\ ThreadsRun /\ WorkerRuns

---------------------------------------------------------------------------
\* SessionContextBase under any derived class: the completion handle that
\* DispatchObjectPack returned resolves to either value, and FinalizeDerived
\* returns either value.  Producers commit, then Finalize runs.

DerivedSetsResult(v) == SetResult(v)

DerivedFinalize(derived) == FinalizeReturn(derived)

NextBase ==
  \/ \E dl \in BOOLEAN : Initialize(dl)
  \/ \E t \in Producers : NewBucket(t)
  \/ \E h \in 1..MaxBuckets : \E n \in BucketSizes : WriteBucket(h, n)
  \/ \E t \in Producers : \E h \in 1..MaxBuckets : \E f \in BOOLEAN :
       CommitBucket(t, h, f)
  \/ \E t \in Threads : Dispatch(t)
  \/ \E t \in Threads : DispatchObjectPack(t)
  \/ \E t \in Threads : EnqueueResult(t)
  \/ \E t \in Producers : CommitForceReturn(t)
  \/ \E t \in Producers : CommitRotateRetry(t)
  \/ WorkerOuter
  \/ WorkerInner(CURLE_OK, OkReply)
  \/ WorkerDequeue(CURLE_OK, OkReply)
  \/ \E v \in BOOLEAN : DerivedSetsResult(v)
  \/ WorkerFlush
  \/ FinalizeBegin
  \/ FinalizeDispatchReturn
  \/ FinalizeDrainCheck
  \/ FinalizeGet
  \/ FinalizeDropLease
  \/ \E d \in BOOLEAN : DerivedFinalize(d)

SpecBase == Init /\ [][NextBase]_vars

---------------------------------------------------------------------------
\* SessionContext in a session whose caller never calls WaitForUpload:
\* producers commit, uploads succeed or fail, then Finalize runs.

NextUploads ==
  \/ \E dl \in BOOLEAN : Initialize(dl)
  \/ \E t \in Producers : NewBucket(t)
  \/ \E h \in 1..MaxBuckets : \E n \in BucketSizes : WriteBucket(h, n)
  \/ \E t \in Producers : \E h \in 1..MaxBuckets : \E f \in BOOLEAN :
       CommitBucket(t, h, f)
  \/ \E t \in Threads : Dispatch(t)
  \/ \E t \in Threads : DispatchObjectPack(t)
  \/ \E t \in Threads : EnqueueResult(t)
  \/ \E t \in Producers : CommitForceReturn(t)
  \/ \E t \in Producers : CommitRotateRetry(t)
  \/ WorkerOuter
  \/ \E x \in Transfers : WorkerInner(x[1], x[2])
  \/ \E x \in Transfers : WorkerDequeue(x[1], x[2])
  \/ WorkerSet
  \/ WorkerFlush
  \/ FinalizeBegin
  \/ FinalizeDispatchReturn
  \/ FinalizeDrainCheck
  \/ FinalizeGet
  \/ FinalizeDropLease
  \/ FinalizeJoin

SpecUploads == Init /\ [][NextUploads]_vars

---------------------------------------------------------------------------
\* The same session with every call of Initialize the caller can make: one
\* that fails, one repeated while the session is open, one after Finalize.

NextInitialize ==
  \/ \E dl \in BOOLEAN : \E mutex_ok \in BOOLEAN : \E create_ok \in BOOLEAN :
       InitializeCall(dl, mutex_ok, create_ok)
  \/ NextUploads

SpecInitialize == Init /\ [][NextInitialize]_vars

---------------------------------------------------------------------------
\* The producers and the upload worker alone, in a session that opens one
\* bucket more; the transport always succeeds.

MoreBuckets == MaxBuckets + 1

NewBucketMore(t) == OpenBucket(t, MoreBuckets)

NextProducers ==
  \/ \E dl \in BOOLEAN : Initialize(dl)
  \/ \E t \in Producers : NewBucketMore(t)
  \/ \E h \in 1..MoreBuckets : \E n \in BucketSizes : WriteBucket(h, n)
  \/ \E t \in Producers : \E h \in 1..MoreBuckets : \E f \in BOOLEAN :
       CommitBucket(t, h, f)
  \/ \E t \in Producers : Dispatch(t)
  \/ \E t \in Producers : DispatchObjectPack(t)
  \/ \E t \in Producers : EnqueueResult(t)
  \/ \E t \in Producers : CommitForceReturn(t)
  \/ \E t \in Producers : CommitRotateRetry(t)
  \/ WorkerOuter
  \/ WorkerInner(CURLE_OK, OkReply)
  \/ WorkerDequeue(CURLE_OK, OkReply)
  \/ WorkerSet
  \/ WorkerFlush

SpecProducers == Init /\ [][NextProducers]_vars

---------------------------------------------------------------------------
\* One producer that opens and commits one bucket at a time and never asks
\* for a forced dispatch; the transport always succeeds.

Producer == 1

NewBucketAlone ==
  /\ active_handles_ = <<>>
  /\ OpenBucket(Producer, MoreBuckets)

NextSerial ==
  \/ \E dl \in BOOLEAN : Initialize(dl)
  \/ NewBucketAlone
  \/ \E h \in 1..MoreBuckets : \E n \in BucketSizes : WriteBucket(h, n)
  \/ \E h \in 1..MoreBuckets : CommitBucket(Producer, h, FALSE)
  \/ Dispatch(Producer)
  \/ DispatchObjectPack(Producer)
  \/ EnqueueResult(Producer)
  \/ CommitRotateRetry(Producer)
  \/ WorkerOuter
  \/ WorkerInner(CURLE_OK, OkReply)
  \/ WorkerDequeue(CURLE_OK, OkReply)
  \/ WorkerSet
  \/ WorkerFlush

SpecSerial == Init /\ [][NextSerial]_vars

---------------------------------------------------------------------------
\* A whole session of one producer: buckets opened and committed one at a
\* time, with or without forced dispatch, then Finalize, with every thread
\* scheduled and every upload attempt returning.

NextSession ==
  \/ \E dl \in BOOLEAN : Initialize(dl)
  \/ NewBucketAlone
  \/ \E h \in 1..MoreBuckets : \E n \in BucketSizes : WriteBucket(h, n)
  \/ \E h \in 1..MoreBuckets : \E f \in BOOLEAN : CommitBucket(Producer, h, f)
  \/ \E t \in {Producer, Main} : Dispatch(t)
  \/ \E t \in {Producer, Main} : DispatchObjectPack(t)
  \/ \E t \in {Producer, Main} : EnqueueResult(t)
  \/ CommitForceReturn(Producer)
  \/ CommitRotateRetry(Producer)
  \/ WorkerOuter
  \/ \E x \in Transfers : WorkerInner(x[1], x[2])
  \/ \E x \in Transfers : WorkerDequeue(x[1], x[2])
  \/ WorkerSet
  \/ WorkerFlush
  \/ FinalizeBegin
  \/ FinalizeDispatchReturn
  \/ FinalizeDrainCheck
  \/ FinalizeGet
  \/ FinalizeDropLease
  \/ FinalizeJoin

SpecSession == Init /\ [][NextSession]_vars /\ ThreadsRun /\ WorkerRuns

---------------------------------------------------------------------------
\* SessionContext::DoUpload, one call followed through the transport: the
\* request it builds, the response body as curl hands it to RecvCB, and the
\* value returned.  Byte strings are strings; the hash, the HMAC and Base64
\* keep the text they were applied to.

SessionTokens == {"tk", "token2"}
Secrets == {"s1", "secret2"}
KeyIds == {"k1", "key2"}
SerializedPacks == {"V2;N0;", "V2;N1;C abc;"}
ApiVersions == {1, 2}

\* The state of the session, left alone by the transport.
session == <<pc, ctx, lock_owner, current_pack_, active_handles_, packs,
             open_buckets, handles_issued, objects_dispatched_,
             bytes_committed_, bytes_dispatched_, upload_jobs_,
             upload_results_, queue_was_flushed_, futures, drop_lease_,
             worker_terminate_, worker, fin, wait, log>>

Base64(data) == "b64[" \o data \o "]"

\* serializer.GetDigest(&payload_digest); payload_digest.ToString(false)
PayloadDigest(pack) == "sha1[" \o pack \o "]"

\* shash::HmacString(secret_, json_body, &hmac); hmac.ToString(false)
HmacString(secret, msg) == "hmac[" \o secret \o "|" \o msg \o "]"

StringifyInt(n) == ToString(n)

\* json_body: the session token, the Base64 payload digest, the API version.
JsonBody(session_token, pack, api_version) ==
  "{\"session_token\" : \"" \o session_token \o
  "\", \"payload_digest\" : \"" \o Base64(PayloadDigest(pack)) \o
  "\", \"api_version\" : \"" \o StringifyInt(api_version) \o "\"}"

\* payload_text = json_body + Base64(payload)
PayloadText(json_body, pack) == json_body \o Base64(pack)

AuthorizationHeader(key_id, hmac) ==
  "Authorization: " \o key_id \o " " \o Base64(hmac)

\* A Message-Size that counts the whole request body.
FullBodySize(json_body, payload_text) == Len(payload_text)

\* json_body.size(), the number put into the Message-Size header.
MessageSize(json_body, payload_text) == Len(json_body)

MessageSizeHeader(json_body, payload_text) ==
  "Message-Size: " \o StringifyInt(MessageSize(json_body, payload_text))

\* The response bodies a server sends, as the pieces in which curl hands
\* them to the write callback.
ResponseChunks ==
  {<<r>> : r \in Replies} \cup
  {<<>>, <<"">>, <<"{\"status\"", ":\"ok\"}">>, <<"<html>", OkReply>>,
   <<OkReply, " ">>}

RECURSIVE Concat(_)
Concat(chunks) ==
  IF chunks = <<>> THEN "" ELSE Head(chunks) \o Concat(Tail(chunks))

\* What follows the received bytes in curl's buffer when they are not
\* followed by a NUL byte.
Garbage == "?"

CURLE_WRITE_ERROR == 23

InitWire ==
  /\ InitSession
  /\ \E tk \in SessionTokens : \E sc \in Secrets : \E k \in KeyIds :
       \E p \in SerializedPacks : \E v \in ApiVersions :
         http = [NoRequest EXCEPT !.stage = "idle", !.session_token = tk,
                                  !.secret = sc, !.key_id = k, !.pack = p,
                                  !.api_version = v]

\* DoUpload up to curl_easy_setopt: json_body, the HMAC, payload_text and
\* the two headers; return false when curl_easy_init() gave no handle.
DoUploadBegin(h_curl) ==
  /\ http.stage = "idle"
  /\ LET json_body == JsonBody(http.session_token, http.pack, http.api_version)
         hmac == HmacString(http.secret, json_body)
         payload_text == PayloadText(json_body, http.pack)
     IN http' = IF h_curl
                THEN [http EXCEPT
                        !.stage = "built",
                        !.headers = <<AuthorizationHeader(http.key_id, hmac),
                                      MessageSizeHeader(json_body, payload_text)>>,
                        !.payload_text = payload_text]
                ELSE [http EXCEPT !.stage = "done", !.result = "false"]
  /\ UNCHANGED session

\* curl_easy_perform sends the request; the server answers with a body that
\* arrives in pieces.
CurlPerform(chunks) ==
  /\ http.stage = "built"
  /\ http' = [http EXCEPT !.stage = "perform", !.response = chunks,
                          !.body = Concat(chunks)]
  /\ UNCHANGED session

\* RecvCB for the next piece: *my_buffer = static_cast<char*>(buffer) reads
\* the buffer as a C string, up to the first NUL byte, which is at the end of
\* the piece or beyond it; the callback returns my_buffer->size() and curl
\* fails the transfer when that is not the size it delivered.
RecvCB(terminated) ==
  /\ http.stage = "perform"
  /\ http.response # <<>>
  /\ LET chunk == Head(http.response)
         read == IF terminated THEN chunk ELSE chunk \o Garbage
     IN http' = IF Len(chunk) < 1
                THEN [http EXCEPT !.response = Tail(@)]
                ELSE IF Len(read) = Len(chunk)
                THEN [http EXCEPT !.response = Tail(@), !.reply = read]
                ELSE [http EXCEPT
                        !.stage = "done", !.reply = read,
                        !.ret = CURLE_WRITE_ERROR,
                        !.result = BoolStr(DoUpload(CURLE_WRITE_ERROR, read))]
  /\ UNCHANGED session

\* curl_easy_perform returns: after the whole body, or earlier with an
\* error; ok = (reply == "{\"status\":\"ok\"}"); return ok && !ret.
CurlReturn(ret) ==
  /\ http.stage = "perform"
  /\ http.response = <<>> \/ ret # CURLE_OK
  /\ http' = [http EXCEPT !.stage = "done", !.ret = ret,
                          !.result = BoolStr(DoUpload(ret, http.reply))]
  /\ UNCHANGED session

NextWire ==
  \/ \E h_curl \in BOOLEAN : DoUploadBegin(h_curl)
  \/ \E chunks \in ResponseChunks : CurlPerform(chunks)
  \/ \E terminated \in BOOLEAN : RecvCB(terminated)
  \/ \E ret \in CurlCodes : CurlReturn(ret)

SpecWire == InitWire /\ [][NextWire]_vars

---------------------------------------------------------------------------
\* Tracer (cvmfs/tracer.cc) with its two Condition objects
\* (util_condition).  sig_flush_ and sig_continue_trace_ are built with
\* ownmtx = true: Signal, Broadcast and Wait lock and unlock the mutex of
\* the condition themselves.  A timed wait ends by a signal or by its
\* timeout, so a waiting thread goes on as soon as it can take the mutex
\* again.

\* Tracer::Activate(buffer_size, flush_threshold, trace_file).  Slots are
\* numbered from 0; an empty slot holds no record (-1).
Activate(buffer_size, flush_threshold) ==
  [NoTracer EXCEPT !.active = TRUE,
                   !.buffer_size_ = buffer_size,
                   !.flush_threshold_ = flush_threshold,
                   !.ring_buffer_ = [p \in 0..(buffer_size - 1) |-> -1],
                   !.commit_buffer_ = [p \in 0..(buffer_size - 1) |-> 0]]

InitTracer ==
  /\ InitSession
  /\ tracer = Activate(BufferSize, FlushThreshold)

\* The tracer is in use: spawned, and its destructor has not been called.
TracerInUse ==
  /\ tracer.spawned
  /\ \A t \in Tracers : tracer.callers[t].op # "stop"

\* Tracing threads are interchangeable: a call is made by the first thread
\* that is not inside a call.
CallsTracer(t) ==
  /\ TracerInUse
  /\ tracer.callers[t].pc = "idle"
  /\ \A u \in Tracers : u < t => tracer.callers[u].pc # "idle"
  /\ tracer.seq_no_ + Cardinality({u \in Tracers : tracer.callers[u].pc = "DoTrace"})
       < MaxRecords

\* Thread t moves on to the next statement, or returns from its call.
MovesTo(t, after) ==
  IF after = "idle" THEN NoCall ELSE [tracer.callers[t] EXCEPT !.pc = after]

\* Tracer::Spawn: pthread_create(MainFlush); spawned_ = true; then
\* DoTrace(kEventStart, ...).
Spawn(t) ==
  /\ tracer.active
  /\ ~tracer.spawned
  /\ tracer.callers[t].pc = "idle"
  /\ tracer' = [tracer EXCEPT !.spawned = TRUE,
                              !.flush.pc = "lock",
                              !.callers[t] = [NoCall EXCEPT !.pc = "DoTrace",
                                                            !.op = "start"]]
  /\ UNCHANGED session

\* A thread calls DoTrace for an event of the file system.
Trace(t) ==
  /\ CallsTracer(t)
  /\ tracer' = [tracer EXCEPT !.callers[t] = [NoCall EXCEPT !.pc = "DoTrace",
                                                            !.op = "trace"]]
  /\ UNCHANGED session

\* Tracer::Flush: if (!active_) return; DoTrace(kEventFlush, ...).
Flush(t) ==
  /\ CallsTracer(t)
  /\ tracer' = [tracer EXCEPT !.callers[t] = [NoCall EXCEPT !.pc = "DoTrace",
                                                            !.op = "flush"]]
  /\ UNCHANGED session

\* Tracer::~Tracer with no thread inside a call: DoTrace(kEventStop, ...).
Destructor(t) ==
  /\ TracerInUse
  /\ \A u \in Tracers : tracer.callers[u].pc = "idle"
  /\ tracer' = [tracer EXCEPT !.callers[t] = [NoCall EXCEPT !.pc = "DoTrace",
                                                            !.op = "stop"]]
  /\ UNCHANGED session

\* int32_t my_seq_no = atomic_xadd32(&seq_no_, 1)
DoTraceSeqNo(t) ==
  /\ tracer.callers[t].pc = "DoTrace"
  /\ tracer' = [tracer EXCEPT !.seq_no_ = @ + 1,
                              !.callers[t].my_seq_no = tracer.seq_no_,
                              !.callers[t].pc = "space"]
  /\ UNCHANGED session

\* A DoTrace that writes its slot without looking at flushed_.
NeverFull(my_seq_no) == FALSE

\* my_seq_no - atomic_read32(&flushed_) >= buffer_size_
BufferFull(my_seq_no) == my_seq_no - tracer.flushed_ >= tracer.buffer_size_

\* while (BufferFull) sig_continue_trace_.Wait(25): the thread goes on when
\* it reads a flushed_ that leaves room for its record.
DoTraceSpace(t) ==
  /\ tracer.callers[t].pc = "space"
  /\ ~BufferFull(tracer.callers[t].my_seq_no)
  /\ tracer' = [tracer EXCEPT !.callers[t].pc = "write"]
  /\ UNCHANGED session

\* int pos = my_seq_no % buffer_size_
Slot(seq_no) == seq_no % tracer.buffer_size_

\* ring_buffer_[pos] = the record
DoTraceWrite(t) ==
  /\ tracer.callers[t].pc = "write"
  /\ tracer' = [tracer EXCEPT
                  !.ring_buffer_[Slot(tracer.callers[t].my_seq_no)] =
                     tracer.callers[t].my_seq_no,
                  !.callers[t].pc = "commit"]
  /\ UNCHANGED session

\* atomic_inc32(&commit_buffer_[pos]); then the test of line 81,
\* my_seq_no - atomic_read32(&flushed_) == flush_threshold_.
DoTraceCommit(t) ==
  /\ tracer.callers[t].pc = "commit"
  /\ tracer' = [tracer EXCEPT
                  !.commit_buffer_[Slot(tracer.callers[t].my_seq_no)] = @ + 1,
                  !.callers[t].pc = "threshold"]
  /\ UNCHANGED session

\* What the caller of DoTrace does next: Flush enters its loop, the
\* destructor asks the flush thread to stop, Trace and Spawn return.
AfterDoTrace(op) ==
  CASE op = "flush" -> "Flush"
    [] op = "stop" -> "terminate"
    [] OTHER -> "idle"

DoTraceThreshold(t) ==
  /\ tracer.callers[t].pc = "threshold"
  /\ tracer' = [tracer EXCEPT
                  !.callers[t] =
                     IF tracer.callers[t].my_seq_no - tracer.flushed_ =
                          tracer.flush_threshold_
                     THEN MovesTo(t, "signal")
                     ELSE MovesTo(t, AfterDoTrace(tracer.callers[t].op))]
  /\ UNCHANGED session

\* Condition::Signal of sig_flush_: pthread_mutex_lock, pthread_cond_signal,
\* pthread_mutex_unlock; the caller waits while another thread holds the
\* mutex.
SignalFlush(t, after) ==
  /\ tracer.mutex = NoThread
  /\ tracer' = [tracer EXCEPT !.callers[t] = MovesTo(t, after)]
  /\ UNCHANGED session

\* sig_flush_.Signal() of DoTrace (line 82); return my_seq_no.
DoTraceSignal(t) ==
  /\ tracer.callers[t].pc = "signal"
  /\ SignalFlush(t, AfterDoTrace(tracer.callers[t].op))

\* Flush: while (atomic_read32(&flushed_) <= save_seq_no)
\* { atomic_cas32(&flush_immediately_, 0, 1); ...
FlushLoop(t) ==
  /\ tracer.callers[t].pc = "Flush"
  /\ tracer' = IF tracer.flushed_ <= tracer.callers[t].my_seq_no
               THEN [tracer EXCEPT !.flush_immediately_ = 1,
                                   !.callers[t].pc = "Flush_signal"]
               ELSE [tracer EXCEPT !.callers[t] = NoCall]
  /\ UNCHANGED session

\* ... sig_flush_.Signal(); sig_continue_trace_.Wait(250); }
FlushSignal(t) ==
  /\ tracer.callers[t].pc = "Flush_signal"
  /\ SignalFlush(t, "Flush")

\* ~Tracer: atomic_inc32(&terminate_flush_thread_)
DestructorTerminate(t) ==
  /\ tracer.callers[t].pc = "terminate"
  /\ tracer' = [tracer EXCEPT !.terminate_flush_thread_ = @ + 1,
                              !.callers[t].pc = "terminate_signal"]
  /\ UNCHANGED session

\* ~Tracer: sig_flush_.Signal()
DestructorSignal(t) ==
  /\ tracer.callers[t].pc = "terminate_signal"
  /\ SignalFlush(t, "join")

\* ~Tracer: pthread_join(thread_flush_); delete[] of both buffers.
DestructorJoin(t) ==
  /\ tracer.callers[t].pc = "join"
  /\ tracer.flush.pc = "exited"
  /\ tracer' = [tracer EXCEPT !.callers[t].pc = "destroyed",
                              !.ring_buffer_ = <<>>,
                              !.commit_buffer_ = <<>>]
  /\ UNCHANGED session

\* MainFlush: tracer->sig_flush_.Lock(); fopen.
MainFlushLock ==
  /\ tracer.flush.pc = "lock"
  /\ tracer.mutex = NoThread
  /\ tracer' = [tracer EXCEPT !.mutex = FlushThread, !.flush.pc = "idle_check"]
  /\ UNCHANGED session

\* The condition of the inner loop of MainFlush (lines 114-118): nothing asks
\* for a flush.
NothingToFlush ==
  /\ tracer.terminate_flush_thread_ = 0
  /\ tracer.flush_immediately_ = 0
  /\ tracer.seq_no_ - tracer.flushed_ <= tracer.flush_threshold_

\* while (NothingToFlush) sig_flush_.Wait(2000); then
\* base = flushed_ % buffer_size_, i = 0.
MainFlushCheck ==
  /\ tracer.flush.pc = "idle_check"
  /\ tracer' = IF NothingToFlush
               THEN [tracer EXCEPT !.flush.pc = "Wait"]
               ELSE [tracer EXCEPT !.flush.pc = "slot",
                                   !.flush.base = Slot(tracer.flushed_),
                                   !.flush.i = 0]
  /\ UNCHANGED session

\* What pthread_mutex_lock does for a default mutex the caller already
\* holds: it never returns, or it returns without a second lock.
RelockOutcomes == {"blocks", "returns"}

\* Condition::Wait(2000) of sig_flush_, called by the flush thread: Lock(),
\* then pthread_cond_timedwait releases the mutex.  The flush thread holds
\* the mutex since line 109, and locking it again is undefined.
MainFlushWait(outcome) ==
  /\ tracer.flush.pc = "Wait"
  /\ tracer.mutex = NoThread => outcome = "returns"
  /\ tracer' = IF outcome = "blocks"
               THEN [tracer EXCEPT !.flush.pc = "blocked"]
               ELSE [tracer EXCEPT !.flush.pc = "timedwait",
                                   !.mutex = NoThread]
  /\ UNCHANGED session

\* The timed wait ends, by a signal or after 2000 ms: the mutex is taken
\* again, then Unlock() releases it and Wait returns.
MainFlushWake ==
  /\ tracer.flush.pc = "timedwait"
  /\ tracer.mutex = NoThread
  /\ tracer' = [tracer EXCEPT !.flush.pc = "idle_check"]
  /\ UNCHANGED session

\* A flush thread that takes every slot for a committed record.
AnySlot(pos) == TRUE

\* atomic_read32(&commit_buffer_[pos]) == 1
Committed(pos) == tracer.commit_buffer_[pos] = 1

\* while ((i <= flush_threshold_) && Committed(pos = (base + i) %
\* buffer_size_)) { the record of the slot is written to the file ...
MainFlushSlot ==
  /\ tracer.flush.pc = "slot"
  /\ LET pos == (tracer.flush.base + tracer.flush.i) % tracer.buffer_size_
     IN tracer' = IF tracer.flush.i <= tracer.flush_threshold_ /\ Committed(pos)
                  THEN [tracer EXCEPT
                          !.file = Append(@, tracer.ring_buffer_[pos]),
                          !.flush.pos = pos,
                          !.flush.pc = "written"]
                  ELSE [tracer EXCEPT !.flush.pc = "flushed"]
  /\ UNCHANGED session

\* ... atomic_dec32(&commit_buffer_[pos]); ++i; }
MainFlushDec ==
  /\ tracer.flush.pc = "written"
  /\ tracer' = [tracer EXCEPT !.commit_buffer_[tracer.flush.pos] = @ - 1,
                              !.flush.i = @ + 1,
                              !.flush.pos = 0,
                              !.flush.pc = "slot"]
  /\ UNCHANGED session

\* fflush(f); atomic_xadd32(&flushed_, i)
MainFlushAdvance ==
  /\ tracer.flush.pc = "flushed"
  /\ tracer' = [tracer EXCEPT !.flushed_ = @ + tracer.flush.i,
                              !.flush.base = 0,
                              !.flush.i = 0,
                              !.flush.pc = "cas"]
  /\ UNCHANGED session

\* atomic_cas32(&flush_immediately_, 1, 0); sig_continue_trace_.Broadcast()
MainFlushBroadcast ==
  /\ tracer.flush.pc = "cas"
  /\ tracer' = [tracer EXCEPT !.flush_immediately_ = 0,
                              !.flush.pc = "again"]
  /\ UNCHANGED session

\* The condition of the outer loop of MainFlush (lines 153-155).
FlushAgain ==
  \/ tracer.terminate_flush_thread_ = 0
  \/ tracer.flushed_ < tracer.seq_no_

\* } while (FlushAgain); sig_flush_.Unlock(); fclose(f); return NULL.
MainFlushLoop ==
  /\ tracer.flush.pc = "again"
  /\ tracer' = IF FlushAgain
               THEN [tracer EXCEPT !.flush.pc = "idle_check"]
               ELSE [tracer EXCEPT !.flush.pc = "exited", !.mutex = NoThread]
  /\ UNCHANGED session

NextTracer ==
  \/ Spawn(1)
  \/ \E t \in Tracers : Trace(t)
  \/ \E t \in Tracers : Flush(t)
  \/ Destructor(1)
  \/ \E t \in Tracers : DoTraceSeqNo(t)
  \/ \E t \in Tracers : DoTraceSpace(t)
  \/ \E t \in Tracers : DoTraceWrite(t)
  \/ \E t \in Tracers : DoTraceCommit(t)
  \/ \E t \in Tracers : DoTraceThreshold(t)
  \/ \E t \in Tracers : DoTraceSignal(t)
  \/ \E t \in Tracers : FlushLoop(t)
  \/ \E t \in Tracers : FlushSignal(t)
  \/ DestructorTerminate(1)
  \/ DestructorSignal(1)
  \/ DestructorJoin(1)
  \/ MainFlushLock
  \/ MainFlushCheck
  \/ \E outcome \in RelockOutcomes : MainFlushWait(outcome)
  \/ MainFlushWake
  \/ MainFlushSlot
  \/ MainFlushDec
  \/ MainFlushAdvance
  \/ MainFlushBroadcast
  \/ MainFlushLoop

SpecTracer == InitTracer /\ [][NextTracer]_vars

\* Scheduling of the tracer: a thread inside a call of the tracer and the
\* flush thread are not starved, they take their next step whenever it
\* stays possible.  Nothing obliges a thread to call the tracer.
SpecTracerLive ==
  /\ SpecTracer
  /\ \A t \in Tracers :
       WF_vars(\/ DoTraceSeqNo(t) \/ DoTraceSpace(t) \/ DoTraceWrite(t)
               \/ DoTraceCommit(t) \/ DoTraceThreshold(t) \/ DoTraceSignal(t)
               \/ FlushLoop(t) \/ FlushSignal(t) \/ DestructorTerminate(t)
               \/ DestructorSignal(t) \/ DestructorJoin(t))
  /\ WF_vars(\/ MainFlushLock \/ MainFlushCheck
             \/ (\E outcome \in RelockOutcomes : MainFlushWait(outcome))
             \/ MainFlushWake \/ MainFlushSlot \/ MainFlushDec
             \/ MainFlushAdvance \/ MainFlushBroadcast \/ MainFlushLoop)

---------------------------------------------------------------------------
\* BackoffThrottle (backoff.cc).  The clock is time(NULL), in seconds; a
\* second may pass at any moment, also while a thread sleeps.
\* prng_.Next(n) returns a number of 0..n-1.  delay_range_ is unsigned; the delays of the model stay far
\* below 2^31, where doubling does not wrap around.

Throttlers == 1..NumThrottlers

\* BackoffThrottle::Init and Reset: delay_range_ = 0, last_throttle_ = 0.
\* quiet records whether the last call that took the lock came
\* reset_after_ms_ or more after the call before it.
ThrottleInit(init_delay_ms, max_delay_ms, reset_after_ms) ==
  [init_delay_ms_ |-> init_delay_ms,
   max_delay_ms_ |-> max_delay_ms,
   reset_after_ms_ |-> reset_after_ms,
   delay_range_ |-> 0,
   last_throttle_ |-> 0,
   lock_ |-> NoThread,
   clock |-> reset_after_ms \div 1000,
   ticks |-> 0,
   calls |-> 0,
   quiet |-> FALSE,
   callers |-> [t \in Throttlers |-> [pc |-> "idle", now |-> 0, delay |-> 0]]]

InitThrottle ==
  /\ InitSession
  /\ \E init_delay_ms \in 1..MaxInitDelay, max_delay_ms \in 1..MaxDelay,
        window \in 0..MaxWindow :
       throttle = ThrottleInit(init_delay_ms, max_delay_ms, 1000 * window)

\* A second passes.
ClockTick ==
  /\ throttle # NoComponent
  /\ throttle.ticks < MaxTicks
  /\ throttle' = [throttle EXCEPT !.clock = @ + 1, !.ticks = @ + 1]
  /\ UNCHANGED session

\* Throttle: time_t now = time(NULL).  The threads are interchangeable:
\* the call is made by the first thread that is not inside a call.
Throttle(t) ==
  /\ throttle # NoComponent
  /\ throttle.callers[t].pc = "idle"
  /\ \A u \in Throttlers : u < t => throttle.callers[u].pc # "idle"
  /\ throttle.calls < MaxThrottleCalls
  /\ throttle' = [throttle EXCEPT !.calls = @ + 1,
                                  !.callers[t].now = throttle.clock,
                                  !.callers[t].pc = "Lock"]
  /\ UNCHANGED session

\* lock_.Lock()
ThrottleLock(t) ==
  /\ throttle # NoComponent
  /\ throttle.callers[t].pc = "Lock"
  /\ throttle.lock_ = NoThread
  /\ throttle' = [throttle EXCEPT !.lock_ = t, !.callers[t].pc = "window"]
  /\ UNCHANGED session

\* unsigned(now - last_throttle_) < reset_after_ms_/1000; a negative
\* difference is a large unsigned number.
InResetWindow(now) ==
  /\ now - throttle.last_throttle_ >= 0
  /\ now - throttle.last_throttle_ < throttle.reset_after_ms_ \div 1000

\* A throttle that keeps the initial range.
NeverDoubles == throttle.init_delay_ms_

\* Lines 42-47: the delay range of the next sleep.
NextDelayRange ==
  IF throttle.delay_range_ < throttle.max_delay_ms_
  THEN IF throttle.delay_range_ = 0 THEN throttle.init_delay_ms_
                                    ELSE throttle.delay_range_ * 2
  ELSE throttle.delay_range_

\* The test of line 41 and what follows under the lock.  Inside the window:
\* the new range, delay = prng_.Next(delay_range_) + 1 cut at max_delay_ms_,
\* lock_.Unlock().  Outside: last_throttle_ = now; lock_.Unlock(); return.
ThrottleWindow(t) ==
  /\ throttle # NoComponent
  /\ throttle.callers[t].pc = "window"
  /\ IF InResetWindow(throttle.callers[t].now)
     THEN \E next \in 0..(NextDelayRange - 1) :
            LET delay == IF next + 1 > throttle.max_delay_ms_
                         THEN throttle.max_delay_ms_ ELSE next + 1
            IN throttle' = [throttle EXCEPT !.delay_range_ = NextDelayRange,
                                            !.quiet = FALSE,
                                            !.lock_ = NoThread,
                                            !.callers[t].delay = delay,
                                            !.callers[t].pc = "SafeSleepMs"]
     ELSE throttle' = [throttle EXCEPT
                         !.last_throttle_ = throttle.callers[t].now,
                         !.quiet = (throttle.callers[t].now -
                                      throttle.last_throttle_ >=
                                    throttle.reset_after_ms_ \div 1000),
                         !.lock_ = NoThread,
                         !.callers[t] = [pc |-> "idle", now |-> 0, delay |-> 0]]
  /\ UNCHANGED session

\* SafeSleepMs(delay)
SafeSleepMs(t) ==
  /\ throttle # NoComponent
  /\ throttle.callers[t].pc = "SafeSleepMs"
  /\ throttle' = [throttle EXCEPT !.callers[t].pc = "Relock"]
  /\ UNCHANGED session

\* lock_.Lock(); last_throttle_ = now; lock_.Unlock()
ThrottleReturn(t) ==
  /\ throttle # NoComponent
  /\ throttle.callers[t].pc = "Relock"
  /\ throttle.lock_ = NoThread
  /\ throttle' = [throttle EXCEPT
                    !.last_throttle_ = throttle.callers[t].now,
                    !.callers[t] = [pc |-> "idle", now |-> 0, delay |-> 0]]
  /\ UNCHANGED session

NextThrottle ==
  \/ ClockTick
  \/ \E t \in Throttlers : Throttle(t)
  \/ \E t \in Throttlers : ThrottleLock(t)
  \/ \E t \in Throttlers : ThrottleWindow(t)
  \/ \E t \in Throttlers : SafeSleepMs(t)
  \/ \E t \in Throttlers : ThrottleReturn(t)

SpecThrottle == InitThrottle /\ [][NextThrottle]_vars

---------------------------------------------------------------------------
\* Tag commands (CommandTag::UpdateUndoTags and CommandRemoveTag::Main).
\* The history database is used through its interface: it holds at most one
\* tag per name; Exists and GetByName look a name up; Insert adds a tag;
\* Remove deletes the tag of a name and answers false when there is none
\* (the message of line 440).  Remove and Insert may fail where the code
\* tests their result.  A history closed inside a transaction loses the
\* changes of the transaction.

kHeadTag == "trunk"
kPreviousHeadTag == "trunk-previous"
kHeadTagDescription == "current HEAD"
kPreviousHeadTagDescription == "default undo target"
kChannelTrunk == "trunk"

TagNames == {kHeadTag, kPreviousHeadTag, "v1"}

NoTag == [name |-> "", channel |-> "", description |-> "", revision |-> 0]

\* history::History::Tag, reduced to four of its fields.
Tags ==
  [name : TagNames, channel : {kChannelTrunk, "test"},
   description : {"", kHeadTagDescription}, revision : 1..MaxRevision]

\* A history in which every tag is filed under its name, and no command
\* running.
OpenHistory(tags) ==
  [tags |-> tags, pc |-> "idle", command |-> "none", ret |-> "none",
   template |-> NoTag, undo_rollback |-> FALSE, condemned_tags |-> <<>>,
   i |-> 0, transaction |-> "none", saved |-> tags, published |-> FALSE]

InitHistory ==
  /\ InitSession
  /\ \E tags \in [TagNames -> Tags \cup {NoTag}] :
       /\ \A n \in TagNames : tags[n] # NoTag => tags[n].name = n
       /\ history = OpenHistory(tags)

\* history->Remove(name)
Remove(tags, name) == [tags EXCEPT ![name] = NoTag]

\* history->Insert(tag)
Insert(tags, tag) == [tags EXCEPT ![tag.name] = tag]

\* A command that leaves the previous head tag of the history alone.
KeepsPreviousHead(tags) == tags

\* Lines 438-441: remove previous HEAD tag.
RemovePreviousHead(tags) == Remove(tags, kPreviousHeadTag)

\* CommandTag::UpdateUndoTags(env, current_head_template, undo_rollback).
\* fails names the call of the history that fails, if any.
UpdateUndoTags(current_head_template, undo_rollback, fails) ==
  /\ history # NoComponent
  /\ history.pc = "idle"
  /\ LET t1 == RemovePreviousHead(history.tags)
         found == t1[kHeadTag] # NoTag
         t2 == IF found THEN Remove(t1, kHeadTag) ELSE t1
         current_old_head ==
           [t1[kHeadTag] EXCEPT !.name = kPreviousHeadTag,
                                !.channel = kChannelTrunk,
                                !.description = kPreviousHeadTagDescription]
         t3 == IF found /\ ~undo_rollback THEN Insert(t2, current_old_head)
               ELSE t2
         current_head ==
           [current_head_template EXCEPT !.name = kHeadTag,
                                         !.channel = kChannelTrunk,
                                         !.description = kHeadTagDescription]
         done == [history EXCEPT !.pc = "returned",
                                 !.command = "UpdateUndoTags",
                                 !.template = current_head_template,
                                 !.undo_rollback = undo_rollback]
     IN history' =
          CASE found /\ fails = "Remove" ->
                 [done EXCEPT !.tags = t1, !.ret = "false"]
            [] found /\ ~undo_rollback /\ fails = "Insert previous" ->
                 [done EXCEPT !.tags = t2, !.ret = "false"]
            [] fails = "Insert" ->
                 [done EXCEPT !.tags = t3, !.ret = "false"]
            [] OTHER ->
                 [done EXCEPT !.tags = Insert(t3, current_head),
                              !.ret = "true"]
  /\ UNCHANGED session

\* A command that looks only at the first name of its list.
FirstExists(condemned_tags) == history.tags[condemned_tags[1]] # NoTag

\* Lines 816-826: all_exist, Exists(*i) for every listed name.
AllExist(condemned_tags) ==
  \A k \in DOMAIN condemned_tags : history.tags[condemned_tags[k]] # NoTag

\* CommandRemoveTag::Main up to BeginTransaction (lines 800-833):
\* InitializeEnvironment, then the test that every listed tag exists.
RemoveTagMain(condemned_tags, env_ok) ==
  /\ history # NoComponent
  /\ history.pc = "idle"
  /\ LET called == [history EXCEPT !.command = "CommandRemoveTag",
                                   !.condemned_tags = condemned_tags]
     IN history' =
          IF ~env_ok \/ ~AllExist(condemned_tags)
          THEN [called EXCEPT !.pc = "returned", !.ret = "1"]
          ELSE [called EXCEPT !.pc = "Remove", !.i = 1,
                              !.transaction = "open",
                              !.saved = history.tags]
  /\ UNCHANGED session

\* Lines 834-840: one turn of the loop that removes the tags.  A Remove that
\* answers false ends the command inside the transaction.
RemoveTagRemove(ok) ==
  /\ history # NoComponent
  /\ history.pc = "Remove"
  /\ history.i <= Len(history.condemned_tags)
  /\ LET name == history.condemned_tags[history.i]
     IN history' =
          IF ok /\ history.tags[name] # NoTag
          THEN [history EXCEPT !.tags = Remove(history.tags, name),
                               !.i = @ + 1]
          ELSE [history EXCEPT !.tags = history.saved,
                               !.transaction = "lost",
                               !.pc = "returned",
                               !.ret = "1"]
  /\ UNCHANGED session

\* Line 841: CommitTransaction.
RemoveTagCommit ==
  /\ history # NoComponent
  /\ history.pc = "Remove"
  /\ history.i > Len(history.condemned_tags)
  /\ history' = [history EXCEPT !.transaction = "committed",
                                !.pc = "CloseAndPublishHistory"]
  /\ UNCHANGED session

\* Lines 843-848: CloseAndPublishHistory, which may fail.
RemoveTagPublish(ok) ==
  /\ history # NoComponent
  /\ history.pc = "CloseAndPublishHistory"
  /\ history' = [history EXCEPT !.published = ok,
                                !.pc = "returned",
                                !.ret = IF ok THEN "0" ELSE "1"]
  /\ UNCHANGED session

\* The lists of tag names SplitString makes of the -d argument.
CondemnedLists ==
  UNION {[1..n -> TagNames] : n \in 1..MaxCondemned}

NextHistory ==
  \/ \E current_head_template \in {t \in Tags : t.name = "v1"},
        undo_rollback \in BOOLEAN,
        fails \in {"none", "Remove", "Insert previous", "Insert"} :
       UpdateUndoTags(current_head_template, undo_rollback, fails)
  \/ \E condemned_tags \in CondemnedLists, env_ok \in BOOLEAN :
       RemoveTagMain(condemned_tags, env_ok)
  \/ \E ok \in BOOLEAN : RemoveTagRemove(ok)
  \/ RemoveTagCommit
  \/ \E ok \in BOOLEAN : RemoveTagPublish(ok)

SpecHistory == InitHistory /\ [][NextHistory]_vars

---------------------------------------------------------------------------
\* Condition::Wait(msec) (util_condition.cc): the absolute deadline handed
\* to pthread_cond_timedwait.  nsecs is int64_t and stays below 2 * 10^9;
\* tv_sec is time_t.

\* Numbers of 0..999 at both ends of the range and in its middle.
MilliEdge ==
  (0..EdgeWidth) \cup {500} \cup ((999 - EdgeWidth)..999)

\* Wait(msec) is called at the time now (gettimeofday).
InitTimedWait ==
  /\ InitSession
  /\ \E secs \in 0..MaxSeconds, ms \in MilliEdge, tv_sec \in 0..MaxSeconds,
        a \in MilliEdge, b \in MilliEdge :
       timedwait = [stage |-> "Wait", msec |-> 1000 * secs + ms,
                    now |-> [tv_sec |-> tv_sec, tv_usec |-> 1000 * a + b],
                    timeout |-> [tv_sec |-> 0, tv_nsec |-> 0],
                    rc |-> "none"]

\* A deadline without the carry into tv_sec.
NoCarry(nsecs) == 0

\* Lines 24-28: carry = 1 if nsecs >= 1000*1000*1000
Carry(nsecs) == IF nsecs >= 1000 * 1000 * 1000 THEN 1 ELSE 0

\* Lines 22-30: the timespec computed from now and msec.
Timeout(now, msec) ==
  LET nsecs == now.tv_usec * 1000 + (msec % 1000) * 1000 * 1000
      carry == Carry(nsecs)
  IN [tv_sec |-> now.tv_sec + msec \div 1000 + carry,
      tv_nsec |-> nsecs - carry * 1000 * 1000 * 1000]

\* Wait(msec) up to the call of pthread_cond_timedwait.
CondWait ==
  /\ timedwait # NoComponent
  /\ timedwait.stage = "Wait"
  /\ timedwait' = [timedwait EXCEPT
                     !.timeout = Timeout(timedwait.now, timedwait.msec),
                     !.stage = "pthread_cond_timedwait"]
  /\ UNCHANGED session

\* pthread_cond_timedwait returns 0 or ETIMEDOUT, and Wait returns it.
CondWaitReturn(rc) ==
  /\ timedwait # NoComponent
  /\ timedwait.stage = "pthread_cond_timedwait"
  /\ timedwait' = [timedwait EXCEPT !.rc = rc, !.stage = "returned"]
  /\ UNCHANGED session

NextTimedWait ==
  \/ CondWait
  \/ \E rc \in {"0", "ETIMEDOUT"} : CondWaitReturn(rc)

SpecTimedWait == InitTimedWait /\ [][NextTimedWait]_vars

---------------------------------------------------------------------------
\* Properties

\* C1: when Finalize returns true, the bytes added to bytes_committed_ over
\* the whole session equal the sum of the sizes of all the packs handed to
\* Dispatch, which is also what bytes_dispatched_ holds.
C1_AccountingInvariant ==
  (pc[Main] = "done" /\ fin.ret = "true") =>
    /\ bytes_committed_ = log.dispatched_bytes
    /\ bytes_dispatched_ = log.dispatched_bytes

\* Finalize returned true after a session that filled more than one pack.
C1_FinalizedAfterRotation ==
  /\ pc[Main] = "done"
  /\ fin.ret = "true"
  /\ objects_dispatched_ >= 2
  /\ bytes_committed_ > MaxPackSize

\* C2: no bucket that is still open loses its bytes when a pack is rotated or
\* dispatched, and after Finalize every committed object is in exactly one
\* dispatched pack.
C2_RotationSafety ==
  /\ \A h \in DOMAIN open_buckets : ~open_buckets[h].freed
  /\ pc[Main] = "done" =>
       \A h \in 1..handles_issued :
         h \notin DOMAIN open_buckets => Occurrences(log.objects, h) = 1

\* C3: when the upload of at least one dispatched job failed, Finalize
\* returns false.
C3_FailedUploadFailsFinalize ==
  (pc[Main] = "done" /\ log.upload_failed) => fin.ret = "false"

\* C4: the value the worker writes into a job's completion handle is the
\* boolean DoUpload returned for that job.
C4_HandleCarriesUploadResult ==
  [][(worker.pc = "set" /\ worker'.pc # "set") =>
       futures'[worker.job.result].value = worker.ok]_vars

\* The dispatch tickets of the completion handles in the results queue and of
\* the jobs in the job queue, in queue order.
ResultTickets == [i \in 1..Len(upload_results_) |-> futures[upload_results_[i]].ticket]
JobTickets == [i \in 1..Len(upload_jobs_) |-> upload_jobs_[i].ticket]

\* C5: packs travel in dispatch order: jobs are enqueued, uploads are started
\* and completion handles are queued in the order in which Dispatch
\* incremented the dispatched-job counter.
C5_DispatchOrder ==
  /\ StrictlyIncreasing(log.enqueued)
  /\ StrictlyIncreasing(log.uploads)
  /\ StrictlyIncreasing(JobTickets)
  /\ StrictlyIncreasing(ResultTickets)

\* Two packs were dispatched and uploaded, and both handles wait in the
\* results queue.
C5_TwoPacksInFlight ==
  /\ Len(log.uploads) >= 2
  /\ Len(upload_results_) >= 2

C7_WaitForUploadDrains ==
  [][(/\ pc[Main] \in {"idle", "WaitForUpload"}
      /\ pc'[Main] = "idle"
      /\ queue_was_flushed_' < queue_was_flushed_)
       => worker.jobs_processed >=
            (IF pc[Main] = "WaitForUpload" THEN wait ELSE Len(upload_results_))]_vars

\* C8: Finalize returns true exactly when every drained completion handle
\* carried true, bytes_committed_ equals bytes_dispatched_ and
\* FinalizeDerived returned true.
C8_FinalizeConjunction ==
  pc[Main] = "done" =>
    (fin.ret = "true" <=>
       /\ \A i \in 1..Len(fin.drained) : fin.drained[i].value = "true"
       /\ bytes_committed_ = bytes_dispatched_
       /\ fin.derived = "true")

\* Finalize returned false because of a drained handle alone.
C8_FalseHandleFailsFinalize ==
  /\ pc[Main] = "done"
  /\ fin.ret = "false"
  /\ fin.derived = "true"
  /\ bytes_committed_ = bytes_dispatched_
  /\ \E i \in 1..Len(fin.drained) : fin.drained[i].value = "false"

\* C9: Finalize drops the lease exactly once when drop_lease_ is set and
\* never otherwise, whether or not an upload failed, and only once every
\* completion handle has been drained.
C9_DropLeaseOnce ==
  /\ pc[Main] \in {"join", "done"} =>
       Len(log.drop_lease) = (IF drop_lease_ THEN 1 ELSE 0)
  /\ pc[Main] \notin {"join", "done"} => log.drop_lease = <<>>
  /\ \A i \in 1..Len(log.drop_lease) :
       /\ log.drop_lease[i].outstanding = 0
       /\ log.drop_lease[i].drained = objects_dispatched_

\* The lease was dropped at the end of a session with a failed upload.
C9_LeaseDroppedAfterFailure ==
  /\ pc[Main] = "done"
  /\ drop_lease_
  /\ log.upload_failed
  /\ Len(log.drop_lease) = 1
  /\ log.drop_lease[1].drained >= 1

\* C10: one CommitBucket call rotates at most once: the commit it issues
\* again against the new pack fits, so no nested call rotates or dispatches.
C10_SingleLevelRetry ==
  \A t \in Producers :
    /\ ctx[t].depth <= 1
    /\ ctx[t].cont = "rotate" => ctx[t].depth = 0

\* A step of thread t in which CommitBucket finds the pack full and rotates:
\* the new pack exists and the Dispatch of the old one is about to start.
Rotates(t) ==
  /\ pc[t] # "Dispatch"
  /\ pc'[t] = "Dispatch"
  /\ ctx'[t].cont = "rotate"

\* C11: a rotation moves every handle of the active set into the new pack
\* with the bytes written so far, keeps the handles, leaves the buckets
\* writable and leaves none of them in the old pack that is dispatched.
C11_RotationTransfersOpenBuckets ==
  [][\A t \in Producers :
       Rotates(t) =>
         /\ active_handles_' = active_handles_
         /\ \A h \in SeqToSet(active_handles_) :
              /\ h \in packs'[ctx'[t].new_pack].open
              /\ h \notin packs'[current_pack_'].open
              /\ h \in DOMAIN open_buckets'
              /\ open_buckets'[h] = open_buckets[h]
              /\ ~open_buckets'[h].freed]_vars

\* A call CommitBucket(h, force_dispatch) of thread t whose commit succeeds
\* on the current pack.
CommitsOnCurrentPack(t, h, force_dispatch) ==
  /\ CommitBucket(t, h, force_dispatch)
  /\ h \notin SeqToSet(active_handles_')

\* The return of a CommitBucket call whose commit was forced.
ForcedCommitReturns(t) ==
  /\ pc[t] = "DispatchReturn"
  /\ ctx[t].cont = "force"
  /\ pc'[t] = "idle"

\* C12: a commit that succeeds on the current pack with force_dispatch set
\* goes on to Dispatch in the same call, the pack is with the worker when the
\* call returns and the call returns with no current pack; without
\* force_dispatch the call returns at once, dispatches nothing and keeps the
\* current pack.
C12_ForcedCommitDispatches ==
  [][\A t \in Producers :
       /\ \A h \in 1..MaxBuckets :
            /\ CommitsOnCurrentPack(t, h, TRUE) =>
                  /\ pc'[t] = "Dispatch"
                  /\ ctx'[t].cont = "force"
                  /\ lock_owner' = t
                  /\ current_pack_' = current_pack_
            /\ CommitsOnCurrentPack(t, h, FALSE) =>
                  /\ pc'[t] = "idle"
                  /\ lock_owner' = NoThread
                  /\ current_pack_' = current_pack_
                  /\ current_pack_' # NULL
                  /\ packs'[current_pack_'].state = "live"
                  /\ objects_dispatched_' = objects_dispatched_
                  /\ upload_jobs_' = upload_jobs_
       /\ ForcedCommitReturns(t) =>
            /\ packs[current_pack_].state \in {"queued", "freed"}
            /\ ctx[t].ticket = objects_dispatched_
            /\ ctx[t].ticket \in SeqToSet(log.enqueued)
            /\ current_pack_' = NULL
            /\ lock_owner' = NoThread]_vars

\* A forced commit has returned: a pack was dispatched and there is no
\* current pack.
C12_ForcedCommitReturned ==
  /\ SessionOpen
  /\ pc[Main] = "idle"
  /\ lock_owner = NoThread
  /\ \A t \in Producers : pc[t] = "idle"
  /\ objects_dispatched_ = 1
  /\ current_pack_ = NULL
  /\ log.objects # <<>>

\* Finalize is past its drain loop.
FinalizeDrained == pc[Main] \in {"drop_lease", "join", "done"}

\* C13: once Finalize has left its drain loop it has consumed exactly as many
\* completion handles as jobs were dispatched, in dispatch order, each of
\* them resolved, and the results queue is empty.
C13_FinalizeDrainsInOrder ==
  FinalizeDrained =>
    /\ fin.jobs_finished = objects_dispatched_
    /\ Len(fin.drained) = objects_dispatched_
    /\ \A i \in 1..Len(fin.drained) :
         /\ fin.drained[i].ticket = i
         /\ fin.drained[i].value \in {"true", "false"}
         /\ \E k \in DOMAIN futures :
              futures[k].ticket = i /\ futures[k].value = fin.drained[i].value
    /\ upload_results_ = <<>>

\* Finalize has returned after draining the handles of two dispatched jobs.
C13_TwoHandlesDrained ==
  /\ pc[Main] = "done"
  /\ objects_dispatched_ >= 2
  /\ Len(fin.drained) >= 2

\* C14: the worker thread has exited only if the terminate flag is set, and
\* then every dispatched job was taken from the job queue and uploaded, its
\* completion handle set: no job is left in the queue or in the worker's
\* hands.
C14_GracefulShutdown ==
  worker.pc = "exited" =>
    /\ worker_terminate_ = 1
    /\ upload_jobs_ = <<>>
    /\ worker.job = NULL
    /\ worker.jobs_processed = objects_dispatched_
    /\ log.uploads = log.enqueued
    /\ Len(log.uploads) = objects_dispatched_
    /\ \A k \in DOMAIN futures : futures[k].value # "unset"

\* The worker has exited after uploading two jobs.
C14_WorkerExitedAfterUploads ==
  /\ worker.pc = "exited"
  /\ worker.jobs_processed >= 2

\* C15: for every request DoUpload builds, with E the envelope made of the
\* session token, the Base64 payload digest and the API version: the
\* Authorization header is the key id, one space and the Base64 of the HMAC
\* of E under the secret; Message-Size is the length of E alone; the body is
\* E followed at once by the Base64 of the serialized pack, so that its first
\* Message-Size bytes are E.
C15_WireProtocol ==
  http.headers # <<>> =>
    LET E == JsonBody(http.session_token, http.pack, http.api_version)
    IN /\ http.headers[1] =
            "Authorization: " \o http.key_id \o " "
              \o Base64(HmacString(http.secret, E))
       /\ http.headers[2] = "Message-Size: " \o ToString(Len(E))
       /\ http.payload_text = E \o Base64(http.pack)
       /\ Len(E) < Len(http.payload_text)
       /\ SubSeq(http.payload_text, 1, Len(E)) = E

\* An upload was sent with its two headers and acknowledged.
C15_RequestSent ==
  /\ http.stage = "done"
  /\ http.headers # <<>>
  /\ http.result = "true"

\* C16: a DoUpload call that went through the transport returns true exactly
\* when the transport call did not fail and the body of the response is the
\* literal {"status":"ok"}.
C16_StrictSuccess ==
  (http.stage = "done" /\ http.headers # <<>>) =>
    (http.result = "true" <=> (http.ret = CURLE_OK /\ http.body = OkReply))

\* C17: the committed size of the current pack, and of every pack handed to
\* Dispatch, is at most max_pack_size_.
C17_PackWithinCeiling ==
  /\ current_pack_ # NULL => PackSize(packs[current_pack_]) <= MaxPackSize
  /\ \A pk \in DOMAIN packs : PackSize(packs[pk]) <= MaxPackSize
  /\ \A i \in DOMAIN upload_jobs_ :
       PackSize(packs[upload_jobs_[i].pack]) <= MaxPackSize
  /\ log.dispatched_bytes <= objects_dispatched_ * MaxPackSize
  /\ bytes_dispatched_ <= objects_dispatched_ * MaxPackSize

\* A pack filled exactly to the ceiling is with the worker.
C17_FullPackDispatched ==
  \E i \in DOMAIN upload_jobs_ :
    /\ PackSize(packs[upload_jobs_[i].pack]) = MaxPackSize
    /\ Len(packs[upload_jobs_[i].pack].buckets) >= 2

\* A step in which a CommitBucket call of thread t returns.
CommitReturns(t) ==
  \/ \E h \in 1..MoreBuckets : CommitBucket(t, h, FALSE) /\ pc'[t] = "idle"
  \/ pc[t] = "DispatchReturn" /\ pc'[t] = "idle"

\* C18: for one producer that opens and commits one bucket at a time without
\* forced dispatch, a commit that does not fit in the current pack dispatches
\* exactly one pack (the call rotates once, at its outermost level, and its
\* Dispatch adds one to the dispatched-job counter), and every commit returns
\* with an empty active-handle set.
C18_SerialCommits ==
  [][/\ Rotates(Producer) => ctx'[Producer].depth = 0
     /\ pc[Producer] = "Dispatch" /\ pc'[Producer] # "Dispatch" =>
          /\ ctx[Producer].depth = 0
          /\ objects_dispatched_' = objects_dispatched_ + 1
     /\ CommitReturns(Producer) =>
          /\ active_handles_' = <<>>
          /\ ctx[Producer].ticket \in {0, objects_dispatched_}]_vars

\* C19: whenever no thread holds the pack lock, every handle of the active
\* set is an open bucket of the current pack; none is a bucket of a pack that
\* was dispatched or freed.
C19_ActiveHandlesInCurrentPack ==
  lock_owner = NoThread =>
    \A h \in SeqToSet(active_handles_) :
      /\ current_pack_ # NULL
      /\ h \in packs[current_pack_].open
      /\ h \in DOMAIN open_buckets
      /\ ~open_buckets[h].freed
      /\ \A pk \in DOMAIN packs :
           h \in packs[pk].open => packs[pk].state = "live"

\* C20: between Initialize and Finalize, whenever no thread holds the pack
\* lock, bytes_committed_ is bytes_dispatched_ plus the committed size of the
\* current pack, or plus zero when there is no current pack.
C20_CommittedIsDispatchedPlusCurrent ==
  (SessionOpen /\ lock_owner = NoThread) =>
    bytes_committed_ =
      bytes_dispatched_ +
        (IF current_pack_ = NULL THEN 0 ELSE PackSize(packs[current_pack_]))

\* A pack was dispatched and the current pack holds a committed bucket.
C20_DispatchedAndCurrent ==
  /\ SessionOpen
  /\ lock_owner = NoThread
  /\ bytes_dispatched_ > 0
  /\ current_pack_ # NULL
  /\ PackSize(packs[current_pack_]) > 0

\* Thread t is inside Dispatch.
InDispatch(t) == pc[t] \in {"Dispatch", "DispatchObjectPack", "EnqueueResult"}

\* C21: with every thread scheduled and the worker running, every Dispatch
\* call returns: no thread stays forever in the enqueue into the job queue
\* or into the results queue.
C21_DispatchReturns ==
  \A t \in Threads : InDispatch(t) ~> (pc[t] = "DispatchReturn")

\* Thread t leaves the position p of its call in this step.
Leaves(t, p) == pc[t] = p /\ pc'[t] # p

C23_ProcessedOnce ==
  [][/\ \A k \in 1..objects_dispatched_' : Occurrences(log'.uploads, k) <= 1
     /\ \A k \in 1..worker'.jobs_processed : Occurrences(log'.uploads, k) = 1
     /\ \A k \in DOMAIN futures :
          futures'[k].value # futures[k].value =>
            /\ futures[k].value = "unset"
            /\ worker.pc = "set"
            /\ worker.job.result = k
            /\ worker.job.ticket \in SeqToSet(log.uploads)
     /\ \A p \in DOMAIN packs :
          /\ packs[p].state = "freed" => packs'[p] = packs[p]
          /\ (packs'[p].state = "freed" /\ packs[p].state # "freed") =>
               /\ worker.pc = "set"
               /\ worker.job.pack = p
               /\ futures'[worker.job.result].value # "unset"
     /\ Len(fin'.drained) > Len(fin.drained) =>
          futures[fin.future].value # "unset"]_vars

\* Finalize has returned after two jobs were processed, one of them with a
\* failed upload.
C23_FailedJobProcessed ==
  /\ pc[Main] = "done"
  /\ log.upload_failed
  /\ worker.jobs_processed >= 2
  /\ Len(fin.drained) >= 2

\* The fields guarded by the pack lock.
Guarded == <<current_pack_, active_handles_, bytes_committed_, bytes_dispatched_>>

\* C24: after Initialize, a step that changes the current-pack slot, the
\* active set, bytes_committed_ or bytes_dispatched_ is a step of the thread
\* that holds the pack lock (or of a call that finds the lock free and
\* releases it in the same step); a thread between the counter update of
\* Dispatch and the replacement of the current pack holds the lock, so with
\* the lock free the current pack is never one that was dispatched.
C24_LockHolderWrites ==
  [][/\ (pc[Main] # "constructed" /\ Guarded' # Guarded /\ lock_owner # NoThread) =>
          pc'[lock_owner] # pc[lock_owner]
     /\ \A t \in Threads :
          (InDispatch(t) \/ pc[t] = "DispatchReturn") => lock_owner = t
     /\ (objects_dispatched_' # objects_dispatched_ \/ Len(upload_jobs_') > Len(upload_jobs_)) =>
          /\ lock_owner # NoThread
          /\ lock_owner' = lock_owner
     /\ (lock_owner' = NoThread /\ current_pack_' # NULL) =>
          packs'[current_pack_'].state = "live"]_vars

\* A producer is inside Dispatch with the pack handed to the job queue and
\* still installed as current, while the other producer is outside any call
\* and a bucket is open.
C24_HandOffInProgress ==
  \E t \in Producers : \E u \in Producers \ {t} :
    /\ pc[t] = "EnqueueResult"
    /\ lock_owner = t
    /\ pc[u] = "idle"
    /\ current_pack_ # NULL
    /\ packs[current_pack_].state \in {"queued", "freed"}
    /\ active_handles_ # <<>>

\* Finalize was called and has not returned.
InFinalize ==
  pc[Main] \in {"Dispatch", "DispatchObjectPack", "EnqueueResult",
                "DispatchReturn", "drain", "drain_get", "drop_lease", "join"}

\* C25: with every upload attempt returning and no producer inside a call,
\* a Finalize that was called returns.
C25_FinalizeReturns == InFinalize ~> (pc[Main] = "done")

\* C26: Finalize, called with an empty active set, dispatches the current
\* pack exactly when there is one and it holds a committed bucket; when
\* Finalize has returned the current-pack slot is empty, and an Initialize
\* called then, with its lock and its thread created, returns true.
C26_FinalizeDispatchesCurrentPack ==
  [][/\ (pc[Main] = "idle" /\ pc'[Main] \in {"Dispatch", "drain"}) =>
          (pc'[Main] = "Dispatch" <=>
             (current_pack_ # NULL /\ Len(packs[current_pack_].buckets) > 0))
     /\ (pc[Main] = "Dispatch" /\ pc'[Main] # "Dispatch") =>
          /\ objects_dispatched_' = objects_dispatched_ + 1
          /\ log'.objects = log.objects \o packs[current_pack_].buckets
     /\ pc'[Main] = "done" => current_pack_' = NULL
     /\ \A dl \in BOOLEAN :
          (pc[Main] = "done" /\ InitializeCall(dl, TRUE, TRUE)) =>
             log'.initialize = "true"]_vars

\* Finalize dispatched a pack, returned, and Initialize was called again.
C26_InitializeAfterFinalize ==
  /\ pc[Main] = "returned"
  /\ fin.ret # "none"
  /\ Len(fin.drained) >= 1
  /\ log.initialize = "true"
  /\ current_pack_ = NULL

\* C27: NewBucket allocates a new empty pack exactly when the current-pack
\* slot is empty, and otherwise takes the bucket from the current pack; its
\* handle joins the active set once, in that call; a handle leaves the active
\* set only in a CommitBucket of that handle that committed it to the current
\* pack.
C27_ActiveSetMembership ==
  [][/\ handles_issued' # handles_issued =>
          LET hd == handles_issued' IN
          /\ hd = handles_issued + 1
          /\ active_handles_' = Append(active_handles_, hd)
          /\ hd \in packs'[current_pack_'].open
          /\ IF current_pack_ = NULL
             THEN /\ Len(packs') = Len(packs) + 1
                  /\ current_pack_' = Len(packs')
                  /\ packs'[current_pack_'] = [EmptyPack EXCEPT !.open = {hd}]
             ELSE /\ current_pack_' = current_pack_
                  /\ Len(packs') = Len(packs)
     /\ \A h \in 1..handles_issued' :
          /\ Occurrences(active_handles_', h) <= 1
          /\ (h \in SeqToSet(active_handles_') /\ h \notin SeqToSet(active_handles_)) =>
               (handles_issued' # handles_issued /\ h = handles_issued')
          /\ (h \in SeqToSet(active_handles_) /\ h \notin SeqToSet(active_handles_')) =>
               /\ \E t \in Producers :
                    \/ \E f \in BOOLEAN : CommitBucket(t, h, f)
                    \/ ctx[t].handle = h /\ CommitRotateRetry(t)
               /\ current_pack_' # NULL
               /\ h \in SeqToSet(packs'[current_pack_'].buckets)
               /\ h \notin SeqToSet(packs[current_pack_'].buckets)
               /\ SeqToSet(active_handles_) \ SeqToSet(active_handles_') = {h}]_vars

\* The second bucket was taken from the pack of the first, and the first
\* was committed and has left the active set.
C27_PackReusedAndHandleLeft ==
  /\ handles_issued = 2
  /\ Len(packs) = 1
  /\ active_handles_ = <<2>>
  /\ packs[1].buckets = <<1>>
  /\ packs[1].open = {2}

\* C28: a call of Initialize that finds a current pack returns false; a call
\* that returns true leaves the dispatched-job counter, bytes_committed_ and
\* bytes_dispatched_ at zero, the results queue and the job queue empty, and
\* one token in the drain-signal queue.
C28_InitializeResult ==
  [][\A dl \in BOOLEAN : \A mutex_ok \in BOOLEAN : \A create_ok \in BOOLEAN :
       InitializeCall(dl, mutex_ok, create_ok) =>
         /\ current_pack_ # NULL => log'.initialize = "false"
         /\ log'.initialize = "true" =>
              /\ objects_dispatched_' = 0
              /\ bytes_committed_' = 0
              /\ bytes_dispatched_' = 0
              /\ upload_results_' = <<>>
              /\ upload_jobs_' = <<>>
              /\ queue_was_flushed_' = 1]_vars

\* Initialize was called again in a session with a current pack that holds
\* committed bytes: its lock was initialised and its thread created, and it
\* returned false.
C28_RejectedForOpenPack ==
  /\ pc[Main] = "returned"
  /\ log.initialize = "false"
  /\ current_pack_ # NULL
  /\ PackSize(packs[current_pack_]) > 0
  /\ bytes_committed_ = 0
  /\ worker.threads = 2

\* C29: a call of Initialize that returns false has started no worker
\* thread.
C29_FailedInitializeStartsNoWorker ==
  [][\A dl \in BOOLEAN : \A mutex_ok \in BOOLEAN : \A create_ok \in BOOLEAN :
       (InitializeCall(dl, mutex_ok, create_ok) /\ log'.initialize = "false") =>
          worker'.threads = worker.threads]_vars

\* C30: a CommitBucket that finds the current-pack slot empty returns false
\* and leaves the active set, the packs, the byte counters, the
\* dispatched-job counter and the queues as they were; every other
\* CommitBucket that returns, from its commit or after its Dispatch, returns
\* true.
C30_CommitBucketResult ==
  [][\A t \in Producers :
       /\ \A h \in 1..MaxBuckets : \A f \in BOOLEAN :
            CommitBucket(t, h, f) =>
              IF current_pack_ = NULL
              THEN /\ pc'[t] = "idle"
                   /\ ctx'[t].ret = "false"
                   /\ UNCHANGED <<current_pack_, active_handles_, packs,
                                  open_buckets, bytes_committed_,
                                  bytes_dispatched_, objects_dispatched_,
                                  upload_jobs_, upload_results_, futures,
                                  queue_was_flushed_>>
              ELSE pc'[t] = "idle" => ctx'[t].ret = "true"
       /\ (pc[t] = "DispatchReturn" /\ pc'[t] = "idle") => ctx'[t].ret = "true"]_vars

\* After a forced dispatch, a producer was answered false for a bucket that
\* is still in the active set, with no current pack.
C30_AnsweredFalse ==
  \E t \in Producers :
    /\ pc[t] = "idle"
    /\ ctx[t].ret = "false"
    /\ current_pack_ = NULL
    /\ active_handles_ # <<>>
    /\ objects_dispatched_ >= 1

\* C31: Finalize called with a handle in the active set stops at its
\* assertion: the call dispatches no pack, takes no completion handle, drops
\* no lease and does not ask the worker to stop, and nothing of it follows.
C31_FinalizeAssertsEmptyActiveSet ==
  [][/\ (active_handles_ # <<>> /\ FinalizeBegin) =>
          /\ pc'[Main] = "aborted"
          /\ UNCHANGED <<lock_owner, current_pack_, objects_dispatched_,
                         bytes_dispatched_, upload_jobs_, upload_results_,
                         futures, fin, log, worker_terminate_>>
     /\ pc[Main] = "aborted" =>
          /\ pc'[Main] = "aborted"
          /\ UNCHANGED <<lock_owner, current_pack_, objects_dispatched_,
                         bytes_dispatched_, upload_results_, fin,
                         worker_terminate_>>
          /\ log'.drop_lease = log.drop_lease]_vars

\* Finalize stopped at its assertion with a current pack that holds a
\* committed bucket.
C31_AbortedWithPackToDispatch ==
  /\ pc[Main] = "aborted"
  /\ active_handles_ # <<>>
  /\ current_pack_ # NULL
  /\ Len(packs[current_pack_].buckets) > 0
  /\ objects_dispatched_ = 0
  /\ fin.jobs_finished = 0
  /\ worker_terminate_ = 0

\* C32: when the transfer has ended without error, the reply DoUpload
\* compares with the literal is the whole body of the response, all its
\* pieces in order; and a response whose whole body is not the literal makes
\* DoUpload return false.
C32_ReplyIsWholeBody ==
  (http.stage = "done" /\ http.headers # <<>>) =>
    /\ http.ret = CURLE_OK => http.reply = http.body
    /\ http.body # OkReply => http.result = "false"

\* Thread t is inside DoTrace, or past it in Flush or the destructor, with
\* the sequence number it drew.
HoldsSeqNo(t) == tracer.callers[t].pc \notin {"idle", "DoTrace", "destroyed"}

\* C33: every DoTrace call draws a sequence number no other call drew; it
\* writes slot s mod buffer_size, and only when s - flushed_ < buffer_size;
\* the record a write replaces was written to the file before; every entry
\* of commit_buffer_ is 0 or 1.
C33_RingBufferSlots ==
  [][/\ \A t \in Tracers :
          /\ HoldsSeqNo(t)' =>
               /\ tracer'.callers[t].my_seq_no < tracer'.seq_no_
               /\ \A u \in Tracers \ {t} :
                    HoldsSeqNo(u)' =>
                       tracer'.callers[u].my_seq_no # tracer'.callers[t].my_seq_no
          /\ (tracer.callers[t].pc = "DoTrace" /\ tracer'.callers[t].pc # "DoTrace") =>
               /\ tracer'.callers[t].my_seq_no = tracer.seq_no_
               /\ tracer'.seq_no_ = tracer.seq_no_ + 1
          /\ (tracer.callers[t].pc = "write" /\ tracer'.callers[t].pc # "write") =>
               LET seq == tracer.callers[t].my_seq_no
                   pos == seq % BufferSize
               IN /\ seq - tracer.flushed_ < BufferSize
                  /\ tracer'.ring_buffer_[pos] = seq
                  /\ tracer.commit_buffer_[pos] = 0
                  /\ \A q \in (DOMAIN tracer.ring_buffer_) \ {pos} :
                       tracer'.ring_buffer_[q] = tracer.ring_buffer_[q]
     /\ \A p \in (DOMAIN tracer.ring_buffer_) \cap (DOMAIN tracer'.ring_buffer_) :
          tracer'.ring_buffer_[p] # tracer.ring_buffer_[p] =>
             \/ tracer.ring_buffer_[p] = -1
             \/ tracer.ring_buffer_[p] \in SeqToSet(tracer.file)
     /\ \A p \in DOMAIN tracer'.commit_buffer_ :
          tracer'.commit_buffer_[p] \in {0, 1}]_vars

\* A slot holds its second record, and a thread waits for room in the
\* buffer.
C33_SlotReusedAndTracerWaits ==
  /\ \E p \in DOMAIN tracer.ring_buffer_ : tracer.ring_buffer_[p] >= BufferSize
  /\ \E t \in Tracers :
       /\ tracer.callers[t].pc = "space"
       /\ BufferFull(tracer.callers[t].my_seq_no)

\* C34: once the flush thread is spawned, every call of the tracer returns
\* (DoTrace, Flush and the destructor), and once the destructor is called
\* every record that drew a sequence number is written to the trace file.
C34_TracerLiveness ==
  /\ \A t \in Tracers :
       (tracer.callers[t].pc # "idle") ~>
         (tracer.callers[t].pc \in {"idle", "destroyed"})
  /\ (\E t \in Tracers : tracer.callers[t].op = "stop") ~>
       (\A s \in 0..(tracer.seq_no_ - 1) :
          \E k \in DOMAIN tracer.file : tracer.file[k] = s)

\* C34: the flush thread never calls sig_flush_.Wait while it holds the
\* mutex of sig_flush_.
C34_FlushThreadNeverRelocks ==
  ~(tracer.flush.pc = "Wait" /\ tracer.mutex = FlushThread)

\* C35: the trace file holds the records in the order of their sequence
\* numbers, each once, starting with record 0; flushed_ never exceeds
\* seq_no_; Flush returns only when flushed_ is greater than the number of
\* its own record; and the flush thread exits only when terminate was
\* requested and flushed_ has reached seq_no_.
C35_FlushOrder ==
  [][/\ \A k \in DOMAIN tracer'.file : tracer'.file[k] = k - 1
     /\ Len(tracer'.file) <= tracer'.seq_no_
     /\ tracer'.flushed_ <= Len(tracer'.file)
     /\ tracer'.flushed_ <= tracer'.seq_no_
     /\ \A t \in Tracers :
          (tracer.callers[t].pc = "Flush" /\ tracer'.callers[t].pc = "idle")
            => tracer.flushed_ > tracer.callers[t].my_seq_no
     /\ (tracer.flush.pc # "exited" /\ tracer'.flush.pc = "exited")
          => /\ tracer.terminate_flush_thread_ # 0
             /\ tracer.flushed_ = tracer.seq_no_
             /\ Len(tracer.file) = tracer.seq_no_]_vars

\* The flush thread has exited after it wrote more records than the ring
\* buffer has slots.
C35_ExitedAfterWrapAround ==
  /\ tracer.flush.pc = "exited"
  /\ Len(tracer.file) > tracer.buffer_size_
  /\ Len(tracer.file) = tracer.seq_no_

\* C36: a Throttle call that finds itself inside the reset window sets the
\* delay range to init_delay_ms_ when it was 0, doubles it while it is below
\* max_delay_ms_ and keeps it otherwise, then sleeps between 1 ms and
\* max_delay_ms_, never more than the range, without holding the lock; a
\* call outside the reset window returns without sleeping.
C36_ExponentialBackoffWithCutoff ==
  [][\A t \in Throttlers :
       LET call == throttle.callers[t]
           since == call.now - throttle.last_throttle_
           inside == since >= 0 /\ since < throttle.reset_after_ms_ \div 1000
           tested == call.pc = "window" /\ throttle'.callers[t].pc # "window"
       IN /\ (tested /\ inside) =>
               /\ throttle'.callers[t].pc = "SafeSleepMs"
               /\ throttle'.delay_range_ =
                    IF throttle.delay_range_ = 0
                    THEN throttle.init_delay_ms_
                    ELSE IF throttle.delay_range_ < throttle.max_delay_ms_
                         THEN 2 * throttle.delay_range_
                         ELSE throttle.delay_range_
               /\ throttle'.callers[t].delay >= 1
               /\ throttle'.callers[t].delay <= throttle.max_delay_ms_
               /\ throttle'.callers[t].delay <= throttle'.delay_range_
          /\ (tested /\ ~inside) =>
               throttle'.callers[t].pc = "idle"
          /\ throttle'.callers[t].pc = "SafeSleepMs" =>
               throttle'.lock_ # t
          /\ (call.pc = "SafeSleepMs" /\ throttle'.callers[t].pc # "SafeSleepMs") =>
               throttle.lock_ # t]_vars

\* A thread is about to sleep max_delay_ms_, the range having been doubled
\* past the cutoff.
C36_SleepsAtCutoff ==
  /\ throttle # NoComponent
  /\ \E t \in Throttlers :
       /\ throttle.callers[t].pc = "SafeSleepMs"
       /\ throttle.delay_range_ = 2 * throttle.init_delay_ms_
       /\ throttle.delay_range_ > throttle.max_delay_ms_
       /\ throttle.callers[t].delay = throttle.max_delay_ms_

\* C37: when a Throttle call came reset_after_ms_ or more after the call
\* before it, the next call that sleeps draws its delay from the initial
\* range init_delay_ms_.
C37_BackoffStartsOver ==
  [][\A t \in Throttlers :
       (/\ throttle.quiet
        /\ throttle.callers[t].pc = "window"
        /\ throttle'.callers[t].pc = "SafeSleepMs")
         => /\ throttle'.delay_range_ = throttle.init_delay_ms_
            /\ throttle'.callers[t].delay <= throttle.init_delay_ms_]_vars

C39_RemoveTagAllOrNothing ==
  [][LET c == history'.condemned_tags
     IN /\ (/\ history.pc = "idle"
            /\ history'.command = "CommandRemoveTag"
            /\ \E k \in DOMAIN c : history.tags[c[k]] = NoTag)
             => /\ history'.pc = "returned"
                /\ history'.ret = "1"
                /\ history'.tags = history.tags
                /\ history'.transaction = "none"
                /\ ~history'.published
        /\ (history'.command = "CommandRemoveTag" /\ history'.tags # history.tags)
             => history.transaction = "open"
        /\ (~history.published /\ history'.published)
             => /\ history.transaction = "committed"
                /\ \A k \in DOMAIN c : history.tags[c[k]] = NoTag
                /\ \A n \in TagNames :
                     (\A k \in DOMAIN c : c[k] # n) =>
                       history.tags[n] = history.saved[n]
        /\ (history'.command = "CommandRemoveTag" /\ history'.ret = "0")
             => history'.published
        /\ (history'.command = "CommandRemoveTag" /\ history'.ret = "1")
             => ~history'.published]_vars

\* CommandRemoveTag returned 0 after it removed two tags.
C39_TwoTagsRemoved ==
  /\ history # NoComponent
  /\ history.command = "CommandRemoveTag"
  /\ history.ret = "0"
  /\ history.published
  /\ Len(history.condemned_tags) = 2
  /\ history.condemned_tags[1] # history.condemned_tags[2]
  /\ \A k \in 1..2 : /\ history.saved[history.condemned_tags[k]] # NoTag
                     /\ history.tags[history.condemned_tags[k]] = NoTag

\* C40: the deadline of Condition::Wait(msec) has tv_nsec in 0..999999999
\* and is the current time plus msec milliseconds: counted in microseconds
\* since tv_sec = 0, it is the microseconds of now plus 1000 * msec.
C40_Deadline ==
  (timedwait # NoComponent /\ timedwait.stage # "Wait") =>
    LET usecs == 1000000 * timedwait.now.tv_sec + timedwait.now.tv_usec
                   + 1000 * timedwait.msec
    IN /\ timedwait.timeout.tv_nsec >= 0
       /\ timedwait.timeout.tv_nsec <= 999999999
       /\ timedwait.timeout.tv_nsec % 1000 = 0
       /\ timedwait.timeout.tv_sec = usecs \div 1000000
       /\ timedwait.timeout.tv_nsec \div 1000 = usecs % 1000000

\* A deadline computed with the carry: the nanoseconds of now and of msec
\* add up to one second or more.
C40_DeadlineWithCarry ==
  /\ timedwait # NoComponent
  /\ timedwait.stage = "pthread_cond_timedwait"
  /\ timedwait.now.tv_usec + 1000 * (timedwait.msec % 1000) >= 1000000
  /\ timedwait.timeout.tv_sec =
       timedwait.now.tv_sec + timedwait.msec \div 1000 + 1

====
